---- MODULE Spec2Model ----
(***************************************************************************)
(* Model of the pyne editor core (src/editor/mod.rs, src/editor/buffer.rs) *)
(* : documents held in a keyed store, cursor addressing over a rope,       *)
(* scroll recomputation, visual selection, open / save.                    *)
(*                                                                         *)
(* A document's content is a sequence of characters.  A character is a     *)
(* one-character string; NL is the line feed, "e2" stands for a character  *)
(* whose UTF-8 encoding is two bytes long (such as U+00E9).                *)
(***************************************************************************)
EXTENDS Integers, Sequences, FiniteSets, TLC

\* ------------------------------------------------------------------------
\* Bounds of the model
\* ------------------------------------------------------------------------

\* longest document the text specification edits
MaxLen == 3

\* longest document the store specification edits
MaxStoreLen == 1

\* longest document the scroll specification edits
MaxScrollLen == 7

\* number of scratch documents that can be allocated
MaxScratch == 1

\* ------------------------------------------------------------------------
\* Program constants
\* ------------------------------------------------------------------------

VERTICAL_PADDING == 6

HORIZONTAL_PADDING == 6

\* usize arithmetic wraps modulo this value in a build without overflow
\* checks; the model keeps every quantity far below it
UsizeModulus == 1073741824

DefaultViewport == <<80, 24>>

NL == "\n"

None == [none |-> TRUE]

Some(v) == [some |-> v]

IsSome(o) == o # None

\* ------------------------------------------------------------------------
\* The rope (ropey::Rope) as a sequence of characters
\* ------------------------------------------------------------------------

\* bytes of the UTF-8 encoding of one character
Utf8Len(ch) == IF ch = "e2" THEN 2 ELSE 1

RECURSIVE ByteLen(_)
\* str::len(): length in bytes
ByteLen(s) == IF s = <<>> THEN 0 ELSE Utf8Len(Head(s)) + ByteLen(Tail(s))

\* Rope::len_chars()
LenChars(c) == Len(c)

\* number of line breaks among the first n characters
CountBreaks(c, n) == Cardinality({i \in 1..n : c[i] = NL})

\* Rope::len_lines(): line breaks + 1
LenLines(c) == CountBreaks(c, Len(c)) + 1

\* Rope::char_to_line(i), defined for i <= len_chars (one past the end gives
\* the last line); it panics beyond that
CharToLine(c, i) == CountBreaks(c, i)

\* Rope::line_to_char(l), defined for l <= len_lines (one past the end gives
\* len_chars); it panics beyond that
LineToChar(c, l) ==
    IF l = 0 THEN 0
    ELSE IF l >= LenLines(c) THEN Len(c)
    ELSE CHOOSE i \in 1..Len(c) : c[i] = NL /\ CountBreaks(c, i) = l

\* Rope::line(l).len_chars(): the line's characters, terminator included
LineLenChars(c, l) == LineToChar(c, l + 1) - LineToChar(c, l)

\* Rope::insert(i, s) / insert_char
RopeInsert(c, i, s) == SubSeq(c, 1, i) \o s \o SubSeq(c, i + 1, Len(c))

\* Rope::remove(a..b)
RopeRemove(c, a, b) == SubSeq(c, 1, a) \o SubSeq(c, b + 1, Len(c))

\* Rope::slice(a..b)
RopeSlice(c, a, b) == SubSeq(c, a + 1, b)

\* usize::saturating_sub
SaturatingSub(a, b) == IF a >= b THEN a - b ELSE 0

\* usize subtraction in a build without overflow checks
WrappingSub(a, b) == (a - b) % UsizeModulus

\* ------------------------------------------------------------------------
\* Paths (std::path::PathBuf) and the file system
\* ------------------------------------------------------------------------

\* the process's working directory: the OS resolves a relative path against it
Cwd == "/w"

\* the directory new_scratch_buffer falls back to (get_config_dir)
ConfigDir == "/c"

RelPath(n) == [dir |-> "", name |-> n, id |-> 0]

AbsPath(d, n) == [dir |-> d, name |-> n, id |-> 0]

\* the n-th generated scratch key: scratch_<uuid>.txt under directory d
ScratchPath(d, n) == [dir |-> d, name |-> "scratch", id |-> n]

\* Path::is_relative
IsRelative(p) == p.dir = ""

\* Path::join: an absolute argument replaces the base
Join(d, p) == IF IsRelative(p) THEN [p EXCEPT !.dir = d] ELSE p

\* the file a path names when it is handed to fs::read_to_string / fs::write
FsLoc(p) == Join(Cwd, p)

\* ------------------------------------------------------------------------
\* State
\* ------------------------------------------------------------------------

VARIABLES
    mode,               \* Editor.mode
    viewport,           \* Editor.viewport, <<width, height>>
    buffers,            \* Editor.buffers: function from keys to Buffer records
    current_buffer,     \* Editor.current_buffer: None or Some(key)
    starting_directory, \* Editor.starting_directory: None or Some(dir)
    files,              \* the file system: function from locations to text
    scratch_count,      \* scratch keys generated so far
    panicked,           \* the thread has panicked; the fields are as it left them
    last,               \* the operation that produced this state and its result
    clipboard,          \* Editor.clipboard: None or Some(text the clipboard holds)
    command_bar,        \* run_app's CommandBar: [active, input]
    explorer_open,      \* FileExplorer.open
    message,            \* ERROR_HANDLER's message: None or Some(text)
    app,                \* run_app: "running", or how it returned: "quit", "failed"
    single_editor       \* the Editor of editor.rs, its command-bar fields

\* what the Editor's methods leave alone, set_error apart
uivars == <<clipboard, command_bar, explorer_open, app, single_editor>>

vars == <<mode, viewport, buffers, current_buffer, starting_directory,
          files, scratch_count, panicked, last,
          clipboard, command_bar, explorer_open, message, app, single_editor>>

\* Buffer::new
BufferNew ==
    [content |-> <<>>, cursor_pos |-> 0, scroll_offset |-> <<0, 0>>,
     is_modified |-> FALSE, selection_start |-> None]

\* the Buffer literal built by open_file
BufferOpened(text) ==
    [content |-> text, cursor_pos |-> 0, scroll_offset |-> <<0, 0>>,
     is_modified |-> FALSE, selection_start |-> Some(0)]

\* Editor::get_current_buffer(): is the current key present in the map
HasCurrent == IsSome(current_buffer) /\ current_buffer.some \in DOMAIN buffers

\* the Buffer get_current_buffer() resolves to
Current == buffers[current_buffer.some]

\* Editor::get_content()
GetContent == IF HasCurrent THEN Some(Current.content) ELSE None

\* Editor::get_cursor_screen_position() on a buffer
CursorScreenPosition(b) ==
    LET line == CharToLine(b.content, b.cursor_pos)
    IN  <<line, b.cursor_pos - LineToChar(b.content, line)>>

\* get_selection without the ordering of its endpoints: (anchor, cursor_pos)
GetSelectionUnordered ==
    IF HasCurrent /\ IsSome(Current.selection_start)
    THEN Some(<<Current.selection_start.some, Current.cursor_pos>>)
    ELSE None

\* Editor::get_selection()
GetSelection ==
    IF HasCurrent /\ IsSome(Current.selection_start)
    THEN LET start == Current.selection_start.some
             end == Current.cursor_pos
         IN  Some(<<IF start < end THEN start ELSE end,
                    IF start < end THEN end ELSE start>>)
    ELSE None

\* ------------------------------------------------------------------------
\* Scroll recomputation
\* ------------------------------------------------------------------------

Outcome(b, p) == [b |-> b, panic |-> p]

\* ScrollAxis with the bottom (right) margin one cell short: the cursor is
\* brought to screen coordinate dim - pad instead of dim - pad - 1
ScrollAxisShortMargin(cur, off, dim, pad, checked) ==
    IF cur < off + pad
    THEN [val |-> SaturatingSub(cur, pad), panic |-> FALSE]
    ELSE IF off + dim < pad /\ checked
    THEN [val |-> off, panic |-> TRUE]
    ELSE IF cur >= WrappingSub(off + dim, pad) + 1
    THEN IF dim < pad /\ checked
         THEN [val |-> off, panic |-> TRUE]
         ELSE [val |-> SaturatingSub(cur, WrappingSub(dim, pad)), panic |-> FALSE]
    ELSE [val |-> off, panic |-> FALSE]

\* one axis of Editor::scroll: cur is the cursor's line (column), off the
\* scroll offset, dim the viewport height (width).  checked tells whether the
\* build panics on arithmetic overflow; without checks the subtraction wraps.
ScrollAxis(cur, off, dim, pad, checked) ==
    IF cur < off + pad
    THEN [val |-> SaturatingSub(cur, pad), panic |-> FALSE]
    ELSE IF off + dim < pad /\ checked
    THEN [val |-> off, panic |-> TRUE]
    ELSE IF cur >= WrappingSub(off + dim, pad)
    THEN IF dim < pad + 1 /\ checked
         THEN [val |-> off, panic |-> TRUE]
         ELSE [val |-> SaturatingSub(cur, WrappingSub(WrappingSub(dim, pad), 1)),
               panic |-> FALSE]
    ELSE [val |-> off, panic |-> FALSE]

\* Editor::scroll on the current buffer b with viewport vp
Scroll(b, vp, checked) ==
    IF b.cursor_pos > LenChars(b.content)
    THEN Outcome(b, TRUE)
    ELSE LET pos == CursorScreenPosition(b)
             y == ScrollAxis(pos[1], b.scroll_offset[2], vp[2],
                             VERTICAL_PADDING, checked)
             by == [b EXCEPT !.scroll_offset = <<b.scroll_offset[1], y.val>>]
             x == ScrollAxis(pos[2], b.scroll_offset[1], vp[1],
                             HORIZONTAL_PADDING, checked)
         IN  IF y.panic THEN Outcome(b, TRUE)
             ELSE IF x.panic THEN Outcome(by, TRUE)
             ELSE Outcome([by EXCEPT !.scroll_offset = <<x.val, y.val>>], FALSE)

\* ------------------------------------------------------------------------
\* Cursor movement (on a Buffer)
\* ------------------------------------------------------------------------

move_cursor_left(b) ==
    IF b.cursor_pos > 0 THEN [b EXCEPT !.cursor_pos = b.cursor_pos - 1] ELSE b

move_cursor_right(b) ==
    IF b.cursor_pos < LenChars(b.content)
    THEN [b EXCEPT !.cursor_pos = b.cursor_pos + 1] ELSE b

\* usize::min
Min(a, b) == IF a < b THEN a ELSE b

move_cursor_up(b) ==
    LET line == CharToLine(b.content, b.cursor_pos)
    IN  IF line >= 1
        THEN LET prev_line == line - 1
                 cur_line_start == LineToChar(b.content, line)
                 prev_line_start == LineToChar(b.content, prev_line)
                 cur_col == b.cursor_pos - cur_line_start
                 prev_line_len == LineLenChars(b.content, prev_line)
             IN  [b EXCEPT !.cursor_pos = prev_line_start + Min(cur_col, prev_line_len)]
        ELSE b

move_cursor_down(b) ==
    LET next_line == CharToLine(b.content, b.cursor_pos) + 1
    IN  IF next_line < LenLines(b.content)
        THEN LET cur_line_start ==
                     LineToChar(b.content, CharToLine(b.content, b.cursor_pos))
                 next_line_start == LineToChar(b.content, next_line)
                 cur_col == b.cursor_pos - cur_line_start
                 next_line_len == LineLenChars(b.content, next_line)
             IN  [b EXCEPT !.cursor_pos = next_line_start + Min(cur_col, next_line_len)]
        ELSE b

move_cursor_line_start(b) ==
    [b EXCEPT !.cursor_pos = LineToChar(b.content, CharToLine(b.content, b.cursor_pos))]

move_cursor_line_end(b) ==
    LET line == CharToLine(b.content, b.cursor_pos)
    IN  [b EXCEPT !.cursor_pos = SaturatingSub(LineToChar(b.content, line + 1), 1)]

\* enum CursorMovement
Directions == {"Left", "Right", "Up", "Down", "LineStart", "LineEnd"}

\* the match of Editor::move_cursor
Moved(b, direction) ==
    CASE direction = "Left" -> move_cursor_left(b)
      [] direction = "Right" -> move_cursor_right(b)
      [] direction = "Up" -> move_cursor_up(b)
      [] direction = "Down" -> move_cursor_down(b)
      [] direction = "LineStart" -> move_cursor_line_start(b)
      [] direction = "LineEnd" -> move_cursor_line_end(b)

\* ------------------------------------------------------------------------
\* Operations of the Editor.  Each is the whole method: the trailing scroll()
\* is part of it.  A method called with no current buffer changes nothing.
\* ------------------------------------------------------------------------

\* the state left by an operation on the current buffer whose outcome is r
StoreCurrent(r) ==
    /\ buffers' = [buffers EXCEPT ![current_buffer.some] = r.b]
    /\ panicked' = r.panic

\* what the caller knows when a method returns: which one, its argument where
\* a claim needs it, whether it reported success, for move_cursor the
\* cursor_pos it was called at (0 for the other operations), and the value a
\* query returned (None for the other operations)
Done(op, ok) == last' = [op |-> op, arg |-> "", ok |-> ok, from |-> 0,
             ret |-> None]

\* Editor::insert_str: the cursor advances by the byte length of s
InsertStrOutcome(b, s, vp, checked) ==
    IF b.cursor_pos > LenChars(b.content)
    THEN Outcome(b, TRUE)
    ELSE Scroll([b EXCEPT !.content = RopeInsert(b.content, b.cursor_pos, s),
                          !.cursor_pos = b.cursor_pos + ByteLen(s),
                          !.is_modified = TRUE], vp, checked)

\* Editor::insert and Editor::insert_new_line
InsertCharOutcome(b, ch, vp, checked) ==
    IF b.cursor_pos > LenChars(b.content)
    THEN Outcome(b, TRUE)
    ELSE Scroll([b EXCEPT !.content = RopeInsert(b.content, b.cursor_pos, <<ch>>),
                          !.cursor_pos = b.cursor_pos + 1,
                          !.is_modified = TRUE], vp, checked)

\* Editor::delete
DeleteOutcome(b, vp, checked) ==
    IF b.cursor_pos > 0
    THEN IF b.cursor_pos > LenChars(b.content)
         THEN Outcome(b, TRUE)
         ELSE Scroll([b EXCEPT !.content = RopeRemove(b.content, b.cursor_pos - 1,
                                                      b.cursor_pos),
                               !.cursor_pos = b.cursor_pos - 1,
                               !.is_modified = TRUE], vp, checked)
    ELSE Outcome(b, FALSE)

\* move_cursor dragging the anchor along with the cursor
MoveCursorOutcomeDraggingAnchor(b, direction, vp, checked) ==
    IF b.cursor_pos > LenChars(b.content) /\ direction \notin {"Left", "Right"}
    THEN Outcome(b, TRUE)
    ELSE LET m == Moved(b, direction)
         IN  Scroll([m EXCEPT !.selection_start =
                         IF IsSome(b.selection_start) THEN Some(m.cursor_pos)
                         ELSE None], vp, checked)

\* Editor::move_cursor
MoveCursorOutcome(b, direction, vp, checked) ==
    IF b.cursor_pos > LenChars(b.content) /\ direction \notin {"Left", "Right"}
    THEN Outcome(b, TRUE)
    ELSE Scroll(Moved(b, direction), vp, checked)

\* Editor::delete_selection, the part that touches the buffer
DeleteSelectionOutcomeKeepingFlag(b) ==
    IF IsSome(b.selection_start)
    THEN LET start == Min(b.selection_start.some, b.cursor_pos)
             end == IF b.selection_start.some > b.cursor_pos
                    THEN b.selection_start.some ELSE b.cursor_pos
         IN  IF end > LenChars(b.content)
             THEN Outcome(b, TRUE)
             ELSE Outcome([b EXCEPT !.content = RopeRemove(b.content, start, end),
                                    !.cursor_pos = start,
                                    !.selection_start = None], FALSE)
    ELSE Outcome(b, FALSE)

DeleteSelectionOutcome(b) ==
    IF IsSome(b.selection_start)
    THEN LET start == Min(b.selection_start.some, b.cursor_pos)
             end == IF b.selection_start.some > b.cursor_pos
                    THEN b.selection_start.some ELSE b.cursor_pos
         IN  IF end > LenChars(b.content)
             THEN Outcome(b, TRUE)
             ELSE Outcome([b EXCEPT !.content = RopeRemove(b.content, start, end),
                                    !.cursor_pos = start,
                                    !.is_modified = TRUE,
                                    !.selection_start = None], FALSE)
    ELSE Outcome(b, FALSE)

\* Editor::insert(ch); maxlen bounds the document the model lets grow
Insert(ch, maxlen) ==
    /\ ~panicked
    /\ UNCHANGED <<uivars, message>>
    /\ HasCurrent => LenChars(Current.content) < maxlen
    /\ IF HasCurrent
       THEN \E checked \in BOOLEAN :
                StoreCurrent(InsertCharOutcome(Current, ch, viewport, checked))
       ELSE UNCHANGED <<buffers, panicked>>
    /\ Done("insert", TRUE)
    /\ UNCHANGED <<mode, viewport, current_buffer, starting_directory,
                   files, scratch_count>>

\* Editor::insert_new_line()
InsertNewLine(maxlen) ==
    /\ ~panicked
    /\ UNCHANGED <<uivars, message>>
    /\ HasCurrent => LenChars(Current.content) < maxlen
    /\ IF HasCurrent
       THEN \E checked \in BOOLEAN :
                StoreCurrent(InsertCharOutcome(Current, NL, viewport, checked))
       ELSE UNCHANGED <<buffers, panicked>>
    /\ Done("insert_new_line", TRUE)
    /\ UNCHANGED <<mode, viewport, current_buffer, starting_directory,
                   files, scratch_count>>

\* Editor::insert_str(s)
InsertStr(s, maxlen) ==
    /\ ~panicked
    /\ UNCHANGED <<uivars, message>>
    /\ HasCurrent => LenChars(Current.content) + Len(s) <= maxlen
    /\ IF HasCurrent
       THEN \E checked \in BOOLEAN :
                StoreCurrent(InsertStrOutcome(Current, s, viewport, checked))
       ELSE UNCHANGED <<buffers, panicked>>
    /\ Done("insert_str", TRUE)
    /\ UNCHANGED <<mode, viewport, current_buffer, starting_directory,
                   files, scratch_count>>

\* Editor::delete()
Delete ==
    /\ ~panicked
    /\ UNCHANGED <<uivars, message>>
    /\ IF HasCurrent
       THEN \E checked \in BOOLEAN :
                StoreCurrent(DeleteOutcome(Current, viewport, checked))
       ELSE UNCHANGED <<buffers, panicked>>
    /\ Done("delete", TRUE)
    /\ UNCHANGED <<mode, viewport, current_buffer, starting_directory,
                   files, scratch_count>>

\* Editor::move_cursor(direction)
MoveCursor(direction) ==
    /\ ~panicked
    /\ UNCHANGED <<uivars, message>>
    /\ IF HasCurrent
       THEN \E checked \in BOOLEAN :
                StoreCurrent(MoveCursorOutcome(Current, direction, viewport, checked))
       ELSE UNCHANGED <<buffers, panicked>>
    /\ last' = [op |-> "move_cursor", arg |-> direction, ok |-> TRUE,
                 from |-> IF HasCurrent THEN Current.cursor_pos ELSE 0,
                 ret |-> None]
    /\ UNCHANGED <<mode, viewport, current_buffer, starting_directory,
                   files, scratch_count>>

\* Editor::set_viewport(vp)
SetViewport(vp) ==
    /\ ~panicked
    /\ UNCHANGED <<uivars, message>>
    /\ viewport' = vp
    /\ IF HasCurrent
       THEN \E checked \in BOOLEAN : StoreCurrent(Scroll(Current, vp, checked))
       ELSE UNCHANGED <<buffers, panicked>>
    /\ Done("set_viewport", TRUE)
    /\ UNCHANGED <<mode, current_buffer, starting_directory, files, scratch_count>>

\* Editor::set_mode(m)
SetMode(m) ==
    /\ ~panicked
    /\ UNCHANGED <<uivars, message>>
    /\ mode' = m
    /\ Done("set_mode", TRUE)
    /\ UNCHANGED <<viewport, buffers, current_buffer, starting_directory,
                   files, scratch_count, panicked>>

\* Editor::enter_visual_mode()
EnterVisualMode ==
    /\ ~panicked
    /\ UNCHANGED <<uivars, message>>
    /\ IF HasCurrent
       THEN /\ buffers' = [buffers EXCEPT ![current_buffer.some].selection_start =
                               Some(Current.cursor_pos)]
            /\ mode' = "Visual"
       ELSE UNCHANGED <<buffers, mode>>
    /\ Done("enter_visual_mode", TRUE)
    /\ UNCHANGED <<viewport, current_buffer, starting_directory,
                   files, scratch_count, panicked>>

\* Editor::exit_visual_mode()
ExitVisualMode ==
    /\ ~panicked
    /\ UNCHANGED <<uivars, message>>
    /\ IF HasCurrent
       THEN /\ buffers' = [buffers EXCEPT ![current_buffer.some].selection_start = None]
            /\ mode' = "Normal"
       ELSE UNCHANGED <<buffers, mode>>
    /\ Done("exit_visual_mode", TRUE)
    /\ UNCHANGED <<viewport, current_buffer, starting_directory,
                   files, scratch_count, panicked>>

\* Editor::delete_selection(): no scroll() follows the removal
DeleteSelection ==
    /\ ~panicked
    /\ UNCHANGED <<uivars, message>>
    /\ IF HasCurrent
       THEN StoreCurrent(DeleteSelectionOutcome(Current))
       ELSE UNCHANGED <<buffers, panicked>>
    /\ mode' = IF panicked' THEN mode ELSE "Normal"
    /\ Done("delete_selection", TRUE)
    /\ UNCHANGED <<viewport, current_buffer, starting_directory, files, scratch_count>>

\* Editor::set_starting_directory(d)
SetStartingDirectory(d) ==
    /\ ~panicked
    /\ UNCHANGED <<uivars, message>>
    /\ starting_directory' = Some(d)
    /\ Done("set_starting_directory", TRUE)
    /\ UNCHANGED <<mode, viewport, buffers, current_buffer, files,
                   scratch_count, panicked>>

\* Editor::new_scratch_buffer(); dir_ok tells whether the directory exists or
\* could be created
NewScratchBuffer(dir_ok) ==
    /\ ~panicked
    /\ UNCHANGED uivars
    /\ message' = IF dir_ok THEN message
                  ELSE Some("Failed to create config directory")
    /\ dir_ok => scratch_count < MaxScratch
    /\ IF dir_ok
       THEN LET config_dir == IF IsSome(starting_directory)
                              THEN starting_directory.some ELSE ConfigDir
                path == ScratchPath(config_dir, scratch_count + 1)
            IN  /\ buffers' = [k \in DOMAIN buffers \cup {path} |->
                                  IF k = path THEN BufferNew ELSE buffers[k]]
                /\ current_buffer' = Some(path)
                /\ scratch_count' = scratch_count + 1
       ELSE UNCHANGED <<buffers, current_buffer, scratch_count>>
    /\ Done("new_scratch_buffer", dir_ok)
    /\ UNCHANGED <<mode, viewport, starting_directory, files, panicked>>

\* a path argument as written: its directory ("" when relative) and its name
PathText(path) == <<path.dir, path.name>>

\* what a call with a path argument leaves in last
Called(op, path, ok) ==
    last' = [op |-> op, arg |-> PathText(path), ok |-> ok, from |-> 0,
             ret |-> None]

\* the path open_file reads: a relative path is joined to the starting directory
ResolvedPath(path) ==
    IF IsRelative(path) /\ IsSome(starting_directory)
    THEN Join(starting_directory.some, path)
    ELSE path

\* fs::read_to_string succeeds on the path open_file resolves: the file exists
Readable(path) == FsLoc(ResolvedPath(path)) \in DOMAIN files

\* open_file that makes the resolved path current before it reads the file
OpenFileEffectSwitchingFirst(path) ==
    LET resolved_path == ResolvedPath(path)
    IN  IF Readable(path)
        THEN /\ buffers' = [k \in DOMAIN buffers \cup {resolved_path} |->
                               IF k = resolved_path
                               THEN BufferOpened(files[FsLoc(resolved_path)])
                               ELSE buffers[k]]
             /\ current_buffer' = Some(resolved_path)
        ELSE /\ buffers' = buffers
             /\ current_buffer' = Some(resolved_path)

\* what Editor::open_file(path) does to the store
OpenFileEffect(path) ==
    LET resolved_path == ResolvedPath(path)
    IN  IF Readable(path)
        THEN /\ buffers' = [k \in DOMAIN buffers \cup {resolved_path} |->
                               IF k = resolved_path
                               THEN BufferOpened(files[FsLoc(resolved_path)])
                               ELSE buffers[k]]
             /\ current_buffer' = Some(resolved_path)
        ELSE UNCHANGED <<buffers, current_buffer>>

\* Editor::open_file(path); the read fails when the file does not exist
OpenFile(path) ==
    /\ ~panicked
    /\ UNCHANGED <<uivars, message>>
    /\ OpenFileEffect(path)
    /\ Called("open_file", path, Readable(path))
    /\ UNCHANGED <<mode, viewport, starting_directory, files, scratch_count, panicked>>

\* save_file that marks every stored document as saved
SaveFileEffectClearingAll(path, write_ok) ==
    IF HasCurrent /\ write_ok
    THEN /\ files' = [l \in DOMAIN files \cup {FsLoc(path)} |->
                         IF l = FsLoc(path) THEN Current.content ELSE files[l]]
         /\ buffers' = [k \in DOMAIN buffers |->
                           [buffers[k] EXCEPT !.is_modified = FALSE]]
         /\ current_buffer' = IF ~IsSome(current_buffer) \/ current_buffer.some # path
                              THEN Some(path) ELSE current_buffer
    ELSE UNCHANGED <<files, buffers, current_buffer>>

\* what Editor::save_file(path) does to the file system and the store;
\* write_ok tells whether fs::write succeeds
SaveFileEffect(path, write_ok) ==
    IF HasCurrent /\ write_ok
    THEN /\ files' = [l \in DOMAIN files \cup {FsLoc(path)} |->
                         IF l = FsLoc(path) THEN Current.content ELSE files[l]]
         /\ buffers' = [buffers EXCEPT ![current_buffer.some].is_modified = FALSE]
         /\ current_buffer' = IF ~IsSome(current_buffer) \/ current_buffer.some # path
                              THEN Some(path) ELSE current_buffer
    ELSE UNCHANGED <<files, buffers, current_buffer>>

\* Editor::save_file(path)
SaveFile(path, write_ok) ==
    /\ ~panicked
    /\ UNCHANGED <<uivars, message>>
    /\ SaveFileEffect(path, write_ok)
    /\ Called("save_file", path, HasCurrent /\ write_ok)
    /\ UNCHANGED <<mode, viewport, starting_directory, scratch_count, panicked>>

\* the w command: save_file(get_current_file_path()) when there is a path
SaveCurrentFile(write_ok) ==
    /\ IsSome(current_buffer)
    /\ SaveFile(current_buffer.some, write_ok)

\* ------------------------------------------------------------------------
\* Specifications
\* ------------------------------------------------------------------------

\* CommandBar::new()
CommandBarNew == [active |-> FALSE, input |-> <<>>, suggestion_index |-> 0,
                  suggestion_page |-> 0]

\* ClipboardContext::new().ok(): ok tells whether a clipboard is available;
\* the text it holds at start is taken to be empty
ClipboardNew(ok) == IF ok THEN Some(<<>>) ELSE None

\* the commands CommandBar::update_suggestions of command_bar.rs lists
SingleSuggestions ==
    <<<<"q">>, <<"q", "!">>, <<"w">>, <<"w", "q">>, <<"e">>,
      <<"h", "e", "l", "p">>, <<"s", "e", "t">>,
      <<"s", "p", "l", "i", "t">>, <<"v", "s", "p", "l", "i", "t">>>>

\* Editor::new() of editor.rs, the command-bar fields; typed is the input as
\* the user last typed it, kept as history
SingleEditorNew ==
    [input |-> <<>>, original_command_input |-> <<>>, suggestion_index |-> 0,
     typed |-> <<>>]

\* main() up to run_app, the Editor apart
AppNew(clipboard_ok) ==
    /\ clipboard = ClipboardNew(clipboard_ok)
    /\ command_bar = CommandBarNew
    /\ explorer_open = FALSE
    /\ message = None
    /\ app = "running"
    /\ single_editor = SingleEditorNew

\* Editor::new()
EditorNew ==
    /\ mode = "Normal"
    /\ viewport = DefaultViewport
    /\ buffers = <<>>
    /\ current_buffer = None
    /\ starting_directory = None
    /\ scratch_count = 0
    /\ panicked = FALSE
    /\ last = [op |-> "new", arg |-> "", ok |-> TRUE, from |-> 0,
             ret |-> None]

\* main() started without a file argument: a scratch buffer is allocated,
\* then the starting directory is set to the working directory
EditorStarted ==
    /\ mode = "Normal"
    /\ viewport = DefaultViewport
    /\ buffers = [k \in {ScratchPath(ConfigDir, 1)} |-> BufferNew]
    /\ current_buffer = Some(ScratchPath(ConfigDir, 1))
    /\ starting_directory = Some(Cwd)
    /\ scratch_count = 1
    /\ panicked = FALSE
    /\ last = [op |-> "new", arg |-> "", ok |-> TRUE, from |-> 0,
             ret |-> None]

\* ------------------------------------------------------------------------
\* Key events: run_app draws the screen, reads a key and calls handle_input
\* ------------------------------------------------------------------------

\* run_app is in its loop
Handling == ~panicked /\ app = "running"

\* what a key event leaves in last: the key, and whether every file system
\* and clipboard operation of its handler succeeded
Key(name, ok) == last' = [op |-> "key", arg |-> name, ok |-> ok, from |-> 0,
             ret |-> None]

\* where handle_input dispatches the key
InExplorer == explorer_open

InNormal == ~explorer_open /\ mode = "Normal" /\ ~command_bar.active

InCommandBar == ~explorer_open /\ mode = "Normal" /\ command_bar.active

InInsert == ~explorer_open /\ mode = "Insert"

InVisual == ~explorer_open /\ mode = "Visual"

\* terminal.draw(render_ui): with the explorer closed the editor area is
\* handed to set_viewport
RenderUi(area) ==
    /\ app = "running"
    /\ ~explorer_open
    /\ SetViewport(area)

\* a key whose match arm does nothing, handled without clear_error()
KeyOtherKeepingMessage ==
    /\ Handling
    /\ ~explorer_open
    /\ Key("other", TRUE)
    /\ UNCHANGED <<mode, viewport, buffers, current_buffer, starting_directory,
                   files, scratch_count, panicked, uivars, message>>

\* a key whose match arm does nothing, in any mode
KeyOther ==
    /\ Handling
    /\ ~explorer_open
    /\ message' = None
    /\ Key("other", TRUE)
    /\ UNCHANGED <<mode, viewport, buffers, current_buffer, starting_directory,
                   files, scratch_count, panicked, uivars>>

\* Left, Right, Up, Down in Normal mode; those and Home, End in Insert and
\* Visual mode: editor.move_cursor(direction)
KeyMove(direction) ==
    /\ Handling
    /\ \/ InNormal /\ direction \in {"Left", "Right", "Up", "Down"}
       \/ InInsert
       \/ InVisual
    /\ IF HasCurrent
       THEN \E checked \in BOOLEAN :
                StoreCurrent(MoveCursorOutcome(Current, direction, viewport, checked))
       ELSE UNCHANGED <<buffers, panicked>>
    /\ message' = None
    /\ Key(direction, TRUE)
    /\ UNCHANGED <<mode, viewport, current_buffer, starting_directory,
                   files, scratch_count, uivars>>

\* v entering Visual mode whether or not there is a current document
NormalKeyVWithoutDocument ==
    /\ Handling
    /\ InNormal
    /\ IF HasCurrent
       THEN buffers' = [buffers EXCEPT ![current_buffer.some].selection_start =
                            Some(Current.cursor_pos)]
       ELSE UNCHANGED buffers
    /\ mode' = "Visual"
    /\ message' = None
    /\ Key("v", TRUE)
    /\ UNCHANGED <<viewport, current_buffer, starting_directory,
                   files, scratch_count, panicked, uivars>>

\* v in Normal mode: editor.enter_visual_mode()
NormalKeyV ==
    /\ Handling
    /\ InNormal
    /\ IF HasCurrent
       THEN /\ buffers' = [buffers EXCEPT ![current_buffer.some].selection_start =
                               Some(Current.cursor_pos)]
            /\ mode' = "Visual"
       ELSE UNCHANGED <<buffers, mode>>
    /\ message' = None
    /\ Key("v", TRUE)
    /\ UNCHANGED <<viewport, current_buffer, starting_directory,
                   files, scratch_count, panicked, uivars>>

\* i in Normal mode: editor.set_mode(Mode::Insert)
NormalKeyI ==
    /\ Handling
    /\ InNormal
    /\ mode' = "Insert"
    /\ message' = None
    /\ Key("i", TRUE)
    /\ UNCHANGED <<viewport, buffers, current_buffer, starting_directory,
                   files, scratch_count, panicked, uivars>>

\* : in Normal mode: command_bar.activate()
NormalKeyColon ==
    /\ Handling
    /\ UNCHANGED single_editor
    /\ InNormal
    /\ command_bar' = [command_bar EXCEPT !.active = TRUE, !.input = <<>>]
    /\ message' = None
    /\ Key(":", TRUE)
    /\ UNCHANGED <<mode, viewport, buffers, current_buffer, starting_directory,
                   files, scratch_count, panicked, clipboard, explorer_open, app>>

\* f in Normal mode: the file explorer opens on a directory; dir_ok tells
\* whether the directory could be read
NormalKeyF(dir_ok) ==
    /\ Handling
    /\ UNCHANGED single_editor
    /\ InNormal
    /\ explorer_open' = TRUE
    /\ app' = IF dir_ok THEN app ELSE "failed"
    /\ message' = None
    /\ Key("f", dir_ok)
    /\ UNCHANGED <<mode, viewport, buffers, current_buffer, starting_directory,
                   files, scratch_count, panicked, clipboard, command_bar>>

\* Esc in Insert mode: editor.set_mode(Mode::Normal)
InsertKeyEsc ==
    /\ Handling
    /\ InInsert
    /\ mode' = "Normal"
    /\ message' = None
    /\ Key("Esc", TRUE)
    /\ UNCHANGED <<viewport, buffers, current_buffer, starting_directory,
                   files, scratch_count, panicked, uivars>>

\* a character key in Insert mode: editor.insert(c)
InsertKeyChar(c, maxlen) ==
    /\ Handling
    /\ InInsert
    /\ HasCurrent => LenChars(Current.content) < maxlen
    /\ IF HasCurrent
       THEN \E checked \in BOOLEAN :
                StoreCurrent(InsertCharOutcome(Current, c, viewport, checked))
       ELSE UNCHANGED <<buffers, panicked>>
    /\ message' = None
    /\ Key("Char", TRUE)
    /\ UNCHANGED <<mode, viewport, current_buffer, starting_directory,
                   files, scratch_count, uivars>>

\* Enter in Insert mode: editor.insert_new_line()
InsertKeyEnter(maxlen) ==
    /\ Handling
    /\ InInsert
    /\ HasCurrent => LenChars(Current.content) < maxlen
    /\ IF HasCurrent
       THEN \E checked \in BOOLEAN :
                StoreCurrent(InsertCharOutcome(Current, NL, viewport, checked))
       ELSE UNCHANGED <<buffers, panicked>>
    /\ message' = None
    /\ Key("Enter", TRUE)
    /\ UNCHANGED <<mode, viewport, current_buffer, starting_directory,
                   files, scratch_count, uivars>>

\* Tab in Insert mode: editor.insert_str("    ")
InsertKeyTab(maxlen) ==
    /\ Handling
    /\ InInsert
    /\ HasCurrent => LenChars(Current.content) + 4 <= maxlen
    /\ IF HasCurrent
       THEN \E checked \in BOOLEAN :
                StoreCurrent(InsertStrOutcome(Current, <<" ", " ", " ", " ">>,
                                              viewport, checked))
       ELSE UNCHANGED <<buffers, panicked>>
    /\ message' = None
    /\ Key("Tab", TRUE)
    /\ UNCHANGED <<mode, viewport, current_buffer, starting_directory,
                   files, scratch_count, uivars>>

\* Backspace in Insert mode: editor.delete()
InsertKeyBackspace ==
    /\ Handling
    /\ InInsert
    /\ IF HasCurrent
       THEN \E checked \in BOOLEAN :
                StoreCurrent(DeleteOutcome(Current, viewport, checked))
       ELSE UNCHANGED <<buffers, panicked>>
    /\ message' = None
    /\ Key("Backspace", TRUE)
    /\ UNCHANGED <<mode, viewport, current_buffer, starting_directory,
                   files, scratch_count, uivars>>

\* Esc in Visual mode leaving the mode without clearing the anchor
VisualKeyEscKeepingAnchor ==
    /\ Handling
    /\ InVisual
    /\ mode' = IF HasCurrent THEN "Normal" ELSE mode
    /\ message' = None
    /\ Key("Esc", TRUE)
    /\ UNCHANGED <<viewport, buffers, current_buffer, starting_directory,
                   files, scratch_count, panicked, uivars>>

\* Esc in Visual mode: editor.exit_visual_mode()
VisualKeyEsc ==
    /\ Handling
    /\ InVisual
    /\ IF HasCurrent
       THEN /\ buffers' = [buffers EXCEPT ![current_buffer.some].selection_start = None]
            /\ mode' = "Normal"
       ELSE UNCHANGED <<buffers, mode>>
    /\ message' = None
    /\ Key("Esc", TRUE)
    /\ UNCHANGED <<viewport, current_buffer, starting_directory,
                   files, scratch_count, panicked, uivars>>

\* d in Visual mode: editor.delete_selection(); editor.exit_visual_mode()
VisualKeyD ==
    /\ Handling
    /\ InVisual
    /\ IF HasCurrent
       THEN LET r == DeleteSelectionOutcome(Current)
            IN  StoreCurrent(Outcome([r.b EXCEPT !.selection_start =
                                          IF r.panic THEN @ ELSE None], r.panic))
       ELSE UNCHANGED <<buffers, panicked>>
    /\ mode' = IF panicked' THEN mode ELSE "Normal"
    /\ message' = None
    /\ Key("d", TRUE)
    /\ UNCHANGED <<viewport, current_buffer, starting_directory,
                   files, scratch_count, uivars>>

\* copy_selection with the slice one character short at its end
CopySelectionShort ==
    IF IsSome(GetSelection)
    THEN LET sel == GetSelection.some
         IN  IF sel[2] > LenChars(Current.content)
             THEN [text |-> None, panic |-> TRUE]
             ELSE [text |-> Some(RopeSlice(Current.content, sel[1],
                                           IF sel[2] > sel[1] THEN sel[2] - 1
                                           ELSE sel[2])),
                   panic |-> FALSE]
    ELSE [text |-> None, panic |-> FALSE]

\* Editor::copy_selection(): the text of the selection; Rope::slice panics
\* when the range ends beyond the document
CopySelection ==
    IF IsSome(GetSelection)
    THEN LET sel == GetSelection.some
         IN  IF sel[2] > LenChars(Current.content)
             THEN [text |-> None, panic |-> TRUE]
             ELSE [text |-> Some(RopeSlice(Current.content, sel[1], sel[2])),
                   panic |-> FALSE]
    ELSE [text |-> None, panic |-> FALSE]

\* y in Visual mode: copy_selection, copy_to_clipboard(text)?, set_error,
\* exit_visual_mode.  set_ok tells whether the clipboard accepts the text;
\* copy_to_clipboard also fails when there is no clipboard, and the ? then
\* returns the error from the handler before exit_visual_mode is reached
VisualKeyY(set_ok) ==
    /\ Handling
    /\ UNCHANGED single_editor
    /\ InVisual
    /\ LET copy == CopySelection
           copied == IsSome(clipboard) /\ set_ok
       IN  IF copy.panic
           THEN /\ panicked' = TRUE
                /\ message' = None
                /\ Key("y", TRUE)
                /\ UNCHANGED <<buffers, mode, clipboard, app>>
           ELSE IF IsSome(copy.text) /\ ~copied
           THEN /\ app' = "failed"
                /\ message' = None
                /\ Key("y", FALSE)
                /\ UNCHANGED <<buffers, mode, clipboard, panicked>>
           ELSE /\ clipboard' = IF IsSome(copy.text) THEN Some(copy.text.some)
                                ELSE clipboard
                /\ message' = IF IsSome(copy.text)
                              THEN Some("Copied to clipboard successfully.")
                              ELSE None
                /\ IF HasCurrent
                   THEN /\ buffers' = [buffers EXCEPT
                                          ![current_buffer.some].selection_start = None]
                        /\ mode' = "Normal"
                   ELSE UNCHANGED <<buffers, mode>>
                /\ Key("y", TRUE)
                /\ UNCHANGED <<app, panicked>>
    /\ UNCHANGED <<viewport, current_buffer, starting_directory, files,
                   scratch_count, command_bar, explorer_open>>

\* --- the command bar ------------------------------------------------------

\* char::is_whitespace on the characters of the model
IsWhitespace(ch) == ch \in {" ", NL}

RECURSIVE TrimStart(_)
\* str::trim_start on a sequence of characters
TrimStart(cs) ==
    IF cs # <<>> /\ IsWhitespace(Head(cs)) THEN TrimStart(Tail(cs)) ELSE cs

RECURSIVE TrimEnd(_)
\* str::trim_end
TrimEnd(cs) ==
    IF cs # <<>> /\ IsWhitespace(cs[Len(cs)])
    THEN TrimEnd(SubSeq(cs, 1, Len(cs) - 1)) ELSE cs

\* str::trim
Trim(cs) == TrimEnd(TrimStart(cs))

\* str::starts_with
StartsWith(cs, prefix) ==
    Len(cs) >= Len(prefix) /\ SubSeq(cs, 1, Len(prefix)) = prefix

\* PathBuf::from(&input[2..]); the file names typed are one character long
PathFromInput(cs) == RelPath(cs[3])

\* the command lines typed into the command bar
CommandLines ==
    {<<"w">>, <<"w", "q">>, <<"w", " ", "f">>, <<"e", " ", "f">>,
     <<"q">>, <<"q", "!">>}

\* what can stand in the command bar while one of them is being typed
CommandPrefixes ==
    UNION {{SubSeq(l, 1, n) : n \in 0..Len(l)} : l \in CommandLines}

HasUnsavedChangesOfCurrent == HasCurrent /\ Current.is_modified

\* Editor::has_unsaved_changes()
HasUnsavedChanges == \E k \in DOMAIN buffers : buffers[k].is_modified

\* command_bar.deactivate() followed by command_bar.reset_suggestion_index()
Deactivated(bar) ==
    [bar EXCEPT !.active = FALSE, !.input = <<>>, !.suggestion_index = 0]

\* the names of CommandBar::new()'s commands, in their order
CommandNames ==
    <<<<"q">>, <<"q", "!">>, <<"w">>, <<"w", "q">>, <<"e">>,
      <<"h", "e", "l", "p">>, <<"s", "e", "t">>,
      <<"s", "p", "l", "i", "t">>, <<"v", "s", "p", "l", "i", "t">>>>

SUGGESTIONS_PER_PAGE == 5

\* the number of pages next_suggestion_page and prev_suggestion_page count
TotalPages == (Len(CommandNames) + SUGGESTIONS_PER_PAGE - 1) \div SUGGESTIONS_PER_PAGE

\* CommandBar::cycle_suggestion leaving the page where it was
CycledKeepingPage(bar, forward) ==
    LET total == Len(CommandNames)
        index == IF forward THEN (bar.suggestion_index + 1) % total
                 ELSE (bar.suggestion_index + total - 1) % total
    IN  [bar EXCEPT !.suggestion_index = index,
                    !.input = CommandNames[index + 1]]

\* CommandBar::cycle_suggestion(forward): the next or previous command
\* becomes the suggestion and the input, and the page follows it
Cycled(bar, forward) ==
    LET total == Len(CommandNames)
        index == IF forward THEN (bar.suggestion_index + 1) % total
                 ELSE (bar.suggestion_index + total - 1) % total
    IN  [bar EXCEPT !.suggestion_index = index,
                    !.suggestion_page = index \div SUGGESTIONS_PER_PAGE,
                    !.input = CommandNames[index + 1]]

\* Tab (forward) and Shift-Tab while the command bar is active:
\* command_bar.cycle_suggestion(forward)
CommandKeyTab(forward) ==
    /\ Handling
    /\ InCommandBar
    /\ command_bar' = Cycled(command_bar, forward)
    /\ message' = None
    /\ Key(IF forward THEN "Tab" ELSE "BackTab", TRUE)
    /\ UNCHANGED <<mode, viewport, buffers, current_buffer, starting_directory,
                   files, scratch_count, panicked, clipboard, explorer_open, app,
                   single_editor>>

\* Right (forward) and Left while the command bar is active:
\* command_bar.next_suggestion_page() and prev_suggestion_page()
CommandKeyPage(forward) ==
    /\ Handling
    /\ InCommandBar
    /\ command_bar' = [command_bar EXCEPT !.suggestion_page =
                           IF forward THEN (@ + 1) % TotalPages
                           ELSE (@ + TotalPages - 1) % TotalPages]
    /\ message' = None
    /\ Key(IF forward THEN "Right" ELSE "Left", TRUE)
    /\ UNCHANGED <<mode, viewport, buffers, current_buffer, starting_directory,
                   files, scratch_count, panicked, clipboard, explorer_open, app,
                   single_editor>>

\* a character key while the command bar is active: command_bar.input(c)
CommandKeyChar(c) ==
    /\ Handling
    /\ UNCHANGED single_editor
    /\ InCommandBar
    /\ Append(command_bar.input, c) \in CommandPrefixes
    /\ command_bar' = [command_bar EXCEPT !.input = Append(@, c),
                                          !.suggestion_index = 0]
    /\ message' = None
    /\ Key("Char", TRUE)
    /\ UNCHANGED <<mode, viewport, buffers, current_buffer, starting_directory,
                   files, scratch_count, panicked, clipboard, explorer_open, app>>

\* Backspace while the command bar is active: command_bar.backspace()
CommandKeyBackspace ==
    /\ Handling
    /\ UNCHANGED single_editor
    /\ InCommandBar
    /\ command_bar' = [command_bar EXCEPT !.input =
                           IF @ = <<>> THEN @ ELSE SubSeq(@, 1, Len(@) - 1),
                                          !.suggestion_index = 0]
    /\ message' = None
    /\ Key("Backspace", TRUE)
    /\ UNCHANGED <<mode, viewport, buffers, current_buffer, starting_directory,
                   files, scratch_count, panicked, clipboard, explorer_open, app>>

\* Esc while the command bar is active: command_bar.deactivate()
CommandKeyEsc ==
    /\ Handling
    /\ UNCHANGED single_editor
    /\ InCommandBar
    /\ command_bar' = Deactivated(command_bar)
    /\ message' = None
    /\ Key("Esc", TRUE)
    /\ UNCHANGED <<mode, viewport, buffers, current_buffer, starting_directory,
                   files, scratch_count, panicked, clipboard, explorer_open, app>>

\* the w and wq commands, and w <path>: editor.save_file(path)?, then the
\* message (w) or the quit signal (wq).  A failed save returns the error
\* from the handler; with no current key set, w and wq only leave a message
SaveCommand(path, write_ok, quit) ==
    IF ~IsSome(path)
    THEN /\ message' = Some("No file path set.")
         /\ Key("Enter", TRUE)
         /\ UNCHANGED <<files, buffers, current_buffer, app>>
    ELSE /\ SaveFileEffect(path.some, write_ok)
         /\ app' = IF ~(HasCurrent /\ write_ok) THEN "failed"
                   ELSE IF quit THEN "quit" ELSE app
         /\ message' = IF HasCurrent /\ write_ok /\ ~quit
                       THEN Some("File saved successfully.") ELSE None
         /\ Key("Enter", ~HasCurrent \/ write_ok)

\* CommandBar::execute_command on the trimmed input
ExecuteCommand(input, write_ok) ==
    IF StartsWith(input, <<"w", " ">>)
    THEN SaveCommand(Some(PathFromInput(input)), write_ok, FALSE)
    ELSE IF StartsWith(input, <<"e", " ">>)
    THEN /\ OpenFileEffect(PathFromInput(input))
         /\ message' = IF Readable(PathFromInput(input))
                       THEN Some("Opened file") ELSE Some("Failed to open file")
         /\ Key("Enter", Readable(PathFromInput(input)))
         /\ UNCHANGED <<files, app>>
    ELSE IF input = <<"q">>
    THEN /\ app' = IF HasUnsavedChanges THEN app ELSE "quit"
         /\ message' = IF HasUnsavedChanges
                       THEN Some("Unsaved changes. Use :q! to force quit.") ELSE None
         /\ Key("Enter", TRUE)
         /\ UNCHANGED <<files, buffers, current_buffer>>
    ELSE IF input = <<"q", "!">>
    THEN /\ app' = "quit"
         /\ message' = None
         /\ Key("Enter", TRUE)
         /\ UNCHANGED <<files, buffers, current_buffer>>
    ELSE IF input = <<"w">>
    THEN SaveCommand(current_buffer, write_ok, FALSE)
    ELSE IF input = <<"w", "q">>
    THEN SaveCommand(current_buffer, write_ok, TRUE)
    ELSE IF input = <<"e">>
    THEN /\ message' = Some("Use :e <filename> to open a file.")
         /\ Key("Enter", TRUE)
         /\ UNCHANGED <<files, buffers, current_buffer, app>>
    ELSE IF input = CommandNames[6]
    THEN /\ message' = None
         /\ Key("Enter", TRUE)
         /\ UNCHANGED <<files, buffers, current_buffer, app>>
    ELSE IF input = CommandNames[7]
    THEN /\ message' = Some("Use :set <option> to set an editor option.")
         /\ Key("Enter", TRUE)
         /\ UNCHANGED <<files, buffers, current_buffer, app>>
    ELSE IF input = CommandNames[8]
    THEN /\ message' = Some("Split view not implemented yet.")
         /\ Key("Enter", TRUE)
         /\ UNCHANGED <<files, buffers, current_buffer, app>>
    ELSE IF input = CommandNames[9]
    THEN /\ message' = Some("Vertical split view not implemented yet.")
         /\ Key("Enter", TRUE)
         /\ UNCHANGED <<files, buffers, current_buffer, app>>
    ELSE /\ message' = Some("Unknown command")
         /\ Key("Enter", TRUE)
         /\ UNCHANGED <<files, buffers, current_buffer, app>>

\* Enter while the command bar is active: execute_command, then deactivate
CommandKeyEnter(write_ok) ==
    /\ Handling
    /\ UNCHANGED single_editor
    /\ InCommandBar
    /\ ExecuteCommand(Trim(command_bar.input), write_ok)
    /\ command_bar' = Deactivated(command_bar)
    /\ UNCHANGED <<mode, viewport, starting_directory, scratch_count, panicked,
                   clipboard, explorer_open>>

\* --- the file explorer ----------------------------------------------------

\* Esc in the file explorer: it closes
ExplorerKeyEsc ==
    /\ Handling
    /\ UNCHANGED single_editor
    /\ InExplorer
    /\ explorer_open' = FALSE
    /\ message' = None
    /\ Key("Esc", TRUE)
    /\ UNCHANGED <<mode, viewport, buffers, current_buffer, starting_directory,
                   files, scratch_count, panicked, clipboard, command_bar, app>>

\* a key that moves within the explorer's listing or edits its search; dir_ok
\* tells whether the directories it reads could be read
ExplorerKeyOther(dir_ok) ==
    /\ Handling
    /\ UNCHANGED single_editor
    /\ InExplorer
    /\ app' = IF dir_ok THEN app ELSE "failed"
    /\ message' = None
    /\ Key("other", dir_ok)
    /\ UNCHANGED <<mode, viewport, buffers, current_buffer, starting_directory,
                   files, scratch_count, panicked, clipboard, command_bar,
                   explorer_open>>

\* Enter in the file explorer on the entry path, a file listed when the
\* directory was read: is_binary_or_non_utf8(path)? reads it, then the
\* explorer closes and editor.open_file(path)? reads it again
ExplorerKeyEnter(path) ==
    /\ Handling
    /\ UNCHANGED single_editor
    /\ InExplorer
    /\ IF Readable(path)
       THEN /\ explorer_open' = FALSE
            /\ OpenFileEffect(path)
            /\ UNCHANGED app
       ELSE /\ app' = "failed"
            /\ UNCHANGED <<explorer_open, buffers, current_buffer>>
    /\ message' = None
    /\ Key("Enter", Readable(path))
    /\ UNCHANGED <<mode, viewport, starting_directory, files, scratch_count,
                   panicked, clipboard, command_bar>>

\* Right in the file explorer on the entry path: the explorer closes, then
\* editor.open_file(path)?
ExplorerKeyRight(path) ==
    /\ Handling
    /\ UNCHANGED single_editor
    /\ InExplorer
    /\ explorer_open' = FALSE
    /\ OpenFileEffect(path)
    /\ app' = IF Readable(path) THEN app ELSE "failed"
    /\ message' = None
    /\ Key("Right", Readable(path))
    /\ UNCHANGED <<mode, viewport, starting_directory, files, scratch_count,
                   panicked, clipboard, command_bar>>

\* --- the store: several documents, files, open and save ------------------

\* the texts the file holds when the editor starts
FileTexts == {<<>>, <<"a">>}

\* the paths handed to open_file and save_file: one file, named by a relative
\* and by an absolute path
StorePaths == {RelPath("f"), AbsPath(Cwd, "f")}

Init ==
    /\ EditorNew
    /\ AppNew(TRUE)
    /\ \E present \in SUBSET {AbsPath(Cwd, "f")} :
           files \in [present -> FileTexts]

Next ==
    \/ NewScratchBuffer(TRUE)
    \/ SetStartingDirectory(Cwd)
    \/ \E p \in StorePaths : OpenFile(p)
    \/ \E p \in StorePaths, ok \in BOOLEAN : SaveFile(p, ok)
    \/ \E ok \in BOOLEAN : SaveCurrentFile(ok)
    \/ Insert("a", MaxStoreLen)
    \/ Delete
    \/ EnterVisualMode
    \/ ExitVisualMode

Spec == Init /\ [][Next]_vars

\* --- the keys of the mode machine, on a document opened from a file ------

\* the text of the file named on the command line
KeyTexts == {<<"a", "b", "c", "d", "e", "f">>, <<"a", "b", NL, "c">>}

\* main() started with the name of an existing file: open_file(path) with no
\* starting directory set
EditorOpened(path, text) ==
    /\ mode = "Normal"
    /\ viewport = DefaultViewport
    /\ buffers = [k \in {path} |-> BufferOpened(text)]
    /\ current_buffer = Some(path)
    /\ starting_directory = None
    /\ scratch_count = 0
    /\ panicked = FALSE
    /\ last = [op |-> "new", arg |-> "", ok |-> TRUE, from |-> 0,
             ret |-> None]

ModeKeyInit ==
    \E text \in KeyTexts, clipboard_ok \in BOOLEAN :
        /\ EditorOpened(RelPath("f"), text)
        /\ files = [l \in {AbsPath(Cwd, "f")} |-> text]
        /\ AppNew(clipboard_ok)

ModeKeyNext ==
    \/ RenderUi(DefaultViewport)
    \/ KeyOther
    \/ \E d \in Directions : KeyMove(d)
    \/ NormalKeyV
    \/ NormalKeyI
    \/ InsertKeyEsc
    \/ VisualKeyEsc
    \/ \E set_ok \in BOOLEAN : VisualKeyY(set_ok)

ModeKeySpec == ModeKeyInit /\ [][ModeKeyNext]_vars

\* --- the keys of the command bar and the file explorer, short texts ------

\* the characters typed into the command bar
CommandChars == {"w", "q", "e", "!", " ", "f"}

\* the entries the file explorer lists
ExplorerEntries == {AbsPath(Cwd, "f")}

CommandKeyInit ==
    /\ EditorStarted
    /\ AppNew(TRUE)
    /\ \E present \in SUBSET {AbsPath(Cwd, "f")} :
           files \in [present -> FileTexts]

CommandKeyNext ==
    \/ RenderUi(DefaultViewport)
    \/ KeyOther
    \/ NormalKeyI
    \/ InsertKeyChar("a", MaxStoreLen)
    \/ InsertKeyBackspace
    \/ InsertKeyEsc
    \/ NormalKeyV
    \/ VisualKeyEsc
    \/ VisualKeyD
    \/ NormalKeyColon
    \/ \E c \in CommandChars : CommandKeyChar(c)
    \/ CommandKeyBackspace
    \/ CommandKeyEsc
    \/ \E write_ok \in BOOLEAN : CommandKeyEnter(write_ok)
    \/ \E dir_ok \in BOOLEAN : NormalKeyF(dir_ok)
    \/ ExplorerKeyEsc
    \/ \E dir_ok \in BOOLEAN : ExplorerKeyOther(dir_ok)
    \/ \E p \in ExplorerEntries : ExplorerKeyEnter(p)
    \/ \E p \in ExplorerEntries : ExplorerKeyRight(p)

CommandKeySpec == CommandKeyInit /\ [][CommandKeyNext]_vars

\* --- one document, every editing operation, short texts ------------------

\* the characters typed into the text specification
TextChars == {"a", "e2"}

\* the strings handed to insert_str
TextStrings == {<<"e2">>, <<"a", "a">>}

TextInit ==
    /\ EditorStarted
    /\ AppNew(TRUE)
    /\ files = <<>>

TextNext ==
    \/ \E ch \in TextChars : Insert(ch, MaxLen)
    \/ InsertNewLine(MaxLen)
    \/ \E s \in TextStrings : InsertStr(s, MaxLen)
    \/ Delete
    \/ \E d \in Directions : MoveCursor(d)
    \/ \E m \in {"Normal", "Insert"} : SetMode(m)
    \/ EnterVisualMode
    \/ ExitVisualMode
    \/ DeleteSelection

TextSpec == TextInit /\ [][TextNext]_vars

\* --- one document long enough to scroll, several viewports ---------------

\* the viewports the render loop sets
ScrollViewports == {<<13, 13>>, <<10, 10>>, <<5, 5>>}

ScrollInit ==
    /\ EditorStarted
    /\ AppNew(TRUE)
    /\ files = <<>>

ScrollNext ==
    \/ Insert("a", MaxScrollLen)
    \/ InsertNewLine(MaxScrollLen)
    \/ Delete
    \/ \E d \in Directions : MoveCursor(d)
    \/ \E vp \in ScrollViewports : SetViewport(vp)

ScrollSpec == ScrollInit /\ [][ScrollNext]_vars

\* --- the gutter (gutter.rs) -----------------------------------------------

DigitChar(d) ==
    CASE d = 0 -> "0" [] d = 1 -> "1" [] d = 2 -> "2" [] d = 3 -> "3"
      [] d = 4 -> "4" [] d = 5 -> "5" [] d = 6 -> "6" [] d = 7 -> "7"
      [] d = 8 -> "8" [] d = 9 -> "9"

RECURSIVE Decimal(_)
\* the decimal digits format! writes for n
Decimal(n) ==
    IF n < 10 THEN <<DigitChar(n)>>
    ELSE Append(Decimal(n \div 10), DigitChar(n % 10))

RECURSIVE PadLeft(_, _)
\* format!("{:>4}", ..): spaces in front up to the width, nothing cut
PadLeft(cs, width) ==
    IF Len(cs) >= width THEN cs ELSE PadLeft(<<" ">> \o cs, width)

\* the entry pushed for a row past the end
BlankEntry == <<" ", " ", " ", " ">>

\* Gutter::get_visible_line_numbers(editor): one entry per line index of
\* start_line..end_line, then one blank entry per index of
\* end_line..(scroll_y + viewport_height); both ranges are empty when their
\* start is not below their end
VisibleLineNumbers ==
    LET scroll_y == IF HasCurrent THEN Current.scroll_offset[2] ELSE 0
        viewport_height == viewport[2]
        total_lines == IF HasCurrent THEN LenLines(Current.content)
                       ELSE LenLines(<<>>)
        start_line == scroll_y
        end_line == Min(scroll_y + viewport_height, total_lines)
        numbered == IF start_line < end_line THEN end_line - start_line ELSE 0
        blank == IF end_line < scroll_y + viewport_height
                 THEN scroll_y + viewport_height - end_line ELSE 0
    IN  [i \in 1..numbered |-> PadLeft(Decimal(start_line + i), 4)]
            \o [i \in 1..blank |-> BlankEntry]

\* a call of Gutter::get_visible_line_numbers
GetVisibleLineNumbers ==
    /\ ~panicked
    /\ last' = [op |-> "get_visible_line_numbers", arg |-> "", ok |-> TRUE,
                from |-> 0, ret |-> Some(VisibleLineNumbers)]
    /\ UNCHANGED <<mode, viewport, buffers, current_buffer, starting_directory,
                   files, scratch_count, panicked, uivars, message>>

\* --- one document of empty lines, selection and scrolling ----------------

SelectNext ==
    \/ InsertNewLine(MaxScrollLen)
    \/ Delete
    \/ \E d \in Directions : MoveCursor(d)
    \/ \E vp \in ScrollViewports : SetViewport(vp)
    \/ EnterVisualMode
    \/ ExitVisualMode
    \/ DeleteSelection
    \/ NewScratchBuffer(FALSE)
    \/ GetVisibleLineNumbers

SelectSpec == ScrollInit /\ [][SelectNext]_vars

\* ------------------------------------------------------------------------
\* Properties
\* ------------------------------------------------------------------------

\* the cursor's line and column in buffer b
LineOf(b) == CharToLine(b.content, b.cursor_pos)

ColumnOf(b) == b.cursor_pos - LineToChar(b.content, LineOf(b))

\* length of line l without its terminating newline
LineLenNoBreak(c, l) ==
    IF l + 1 < LenLines(c) THEN LineLenChars(c, l) - 1 ELSE LineLenChars(c, l)

\* C1: after any sequence of insert, insert_str, insert_new_line and delete
\* on the current document, 0 <= cursor_pos <= the document's length in
\* characters.
C1_CursorWithinDocument ==
    HasCurrent => /\ 0 <= Current.cursor_pos
                  /\ Current.cursor_pos <= LenChars(Current.content)

\* C2: current_buffer is None or a key of the buffers map, so the current
\* document stays resolvable after a save to another path.
C2_CurrentKeyInStore ==
    IsSome(current_buffer) => current_buffer.some \in DOMAIN buffers

\* the operations C3 names: the mutation entry points and cursor movement
MutationOps ==
    {"insert", "insert_str", "insert_new_line", "delete", "delete_selection",
     "move_cursor"}

\* C3: when a mutation entry point or a cursor movement returns, scroll_offset
\* is the scroll rule applied to the scroll_offset before the operation and
\* the cursor after it.
C3_ScrollRecomputedOnReturn ==
    [][(/\ last'.op \in MutationOps
        /\ HasCurrent
        /\ ~panicked'
        /\ \/ Current'.content # Current.content
           \/ Current'.cursor_pos # Current.cursor_pos)
       => \E checked \in BOOLEAN :
              LET r == Scroll([Current' EXCEPT !.scroll_offset =
                                   Current.scroll_offset], viewport', checked)
              IN  ~r.panic /\ Current'.scroll_offset = r.b.scroll_offset]_vars

\* C4: scroll() called twice in a row with nothing changed in between leaves
\* the scroll_offset the first call produced.
C4_ScrollIdempotent ==
    [][(/\ last.op = "set_viewport"
        /\ last'.op = "set_viewport"
        /\ viewport' = viewport
        /\ ~panicked')
       => buffers' = buffers]_vars

\* C5: with a viewport narrower or lower than the padding of 6 the scroll
\* recomputation completes without underflow or panic.
C5_SmallViewportNoUnderflow ==
    (viewport[1] < HORIZONTAL_PADDING \/ viewport[2] < VERTICAL_PADDING)
        => ~panicked

\* the operations that end with a scroll recomputation
ScrollingOps == {"insert", "insert_str", "insert_new_line", "move_cursor",
                 "set_viewport"}

\* the cursor's screen coordinate cur - off lies in [pad, dim - pad - 1], or
\* the cursor is fewer than pad from the start and the offset is 0
WithinMargins(cur, off, dim, pad) ==
    IF cur < pad THEN off = 0
    ELSE pad <= cur - off /\ cur - off <= dim - pad - 1

\* C6 as stated: after the scroll recomputation, for every viewport, the
\* cursor's screen row and column lie within the margins.
C6_CursorWithinMarginsAnyViewport ==
    (last.op \in ScrollingOps /\ HasCurrent /\ ~panicked)
        => /\ WithinMargins(LineOf(Current), Current.scroll_offset[2],
                            viewport[2], VERTICAL_PADDING)
           /\ WithinMargins(ColumnOf(Current), Current.scroll_offset[1],
                            viewport[1], HORIZONTAL_PADDING)

\* C6, amended: after the scroll recomputation the cursor's screen row lies
\* within the margins when the viewport height is at least 2 * 6 + 1, and its
\* screen column when the viewport width is at least 2 * 6 + 1.
C6_CursorWithinMargins ==
    (last.op \in ScrollingOps /\ HasCurrent /\ ~panicked)
        => /\ viewport[2] >= 2 * VERTICAL_PADDING + 1
                => WithinMargins(LineOf(Current), Current.scroll_offset[2],
                                 viewport[2], VERTICAL_PADDING)
           /\ viewport[1] >= 2 * HORIZONTAL_PADDING + 1
                => WithinMargins(ColumnOf(Current), Current.scroll_offset[1],
                                 viewport[1], HORIZONTAL_PADDING)

\* a scroll recomputation has just moved the window down in a viewport of
\* height 13: the cursor sits on the last row inside the bottom margin
C6_Witness ==
    /\ last.op \in ScrollingOps /\ HasCurrent /\ ~panicked
    /\ viewport[2] >= 2 * VERTICAL_PADDING + 1
    /\ Current.scroll_offset[2] > 0
    /\ LineOf(Current) - Current.scroll_offset[2] = viewport[2] - VERTICAL_PADDING - 1

\* C7: whenever the mode is not Visual, get_selection() is None.
C7_NoAnchorOutsideVisual ==
    mode # "Visual" => GetSelection = None

\* C8: a successful open_file makes the opened document current with the
\* file's text, cursor 0, scroll (0, 0), unmodified and without an anchor.
C8_OpenFileResult ==
    (last.op = "open_file" /\ last.ok)
        => /\ HasCurrent
           /\ Current = [content |-> files[FsLoc(current_buffer.some)],
                         cursor_pos |-> 0, scroll_offset |-> <<0, 0>>,
                         is_modified |-> FALSE, selection_start |-> None]

\* C9: move up (down) puts the cursor on the adjacent line at column
\* min(column, length of that line without its newline), and leaves it where
\* it is on the first (last) line.
C9_VerticalMoveClampsColumn ==
    [][(last'.op = "move_cursor" /\ HasCurrent /\ ~panicked')
       => LET b == Current
              target == IF last'.arg = "Up" THEN LineOf(b) - 1 ELSE LineOf(b) + 1
          IN  last'.arg \in {"Up", "Down"}
                => IF target >= 0 /\ target < LenLines(b.content)
                   THEN /\ LineOf(Current') = target
                        /\ ColumnOf(Current') =
                               Min(ColumnOf(b), LineLenNoBreak(b.content, target))
                   ELSE Current'.cursor_pos = b.cursor_pos]_vars

\* C10: move to line end puts the cursor just before the line's newline, or
\* at the document end on the last line, and keeps it on its line.
C10_LineEndBeforeNewline ==
    [][(last'.op = "move_cursor" /\ last'.arg = "LineEnd" /\ HasCurrent /\ ~panicked')
       => LET b == Current
          IN  /\ Current'.cursor_pos =
                     LineToChar(b.content, LineOf(b)) + LineLenNoBreak(b.content, LineOf(b))
              /\ LineOf(Current') = LineOf(b)]_vars

\* C11: from column C on a line that has a line above it, move up followed by
\* move down returns the cursor to the original line at a column <= C, and
\* exactly C unless the line above is shorter than C.
C11_UpThenDownReturns ==
    [][(/\ last.op = "move_cursor" /\ last.arg = "Up"
        /\ last'.op = "move_cursor" /\ last'.arg = "Down"
        /\ HasCurrent /\ ~panicked'
        /\ CharToLine(Current.content, last.from) >= 1)
       => LET c == Current.content
              line == CharToLine(c, last.from)
              column == last.from - LineToChar(c, line)
          IN  /\ LineOf(Current') = line
              /\ ColumnOf(Current') <= column
              /\ LineLenNoBreak(c, line - 1) >= column
                    => ColumnOf(Current') = column]_vars

\* C12: in an empty document every cursor movement leaves cursor_pos at 0, and
\* on a line of length 0 move to line end gives the offset of the line start.
C12_EmptyLineMovements ==
    [][(last'.op = "move_cursor" /\ HasCurrent /\ ~panicked')
       => LET b == Current
          IN  /\ b.content = <<>> => Current'.cursor_pos = 0
              /\ (last'.arg = "LineEnd" /\ LineLenNoBreak(b.content, LineOf(b)) = 0)
                    => Current'.cursor_pos = move_cursor_line_start(b).cursor_pos]_vars

\* C13: insert_str(s) inserts s at cursor_pos and advances cursor_pos by the
\* number of characters of s, so the cursor is immediately after the inserted
\* text.
C13_InsertStrAdvancesByChars ==
    [][(last'.op = "insert_str" /\ HasCurrent /\ ~panicked')
       => LET b == Current
              n == LenChars(Current'.content) - LenChars(b.content)
          IN  /\ Current'.content =
                     RopeInsert(b.content, b.cursor_pos,
                                RopeSlice(Current'.content, b.cursor_pos,
                                          b.cursor_pos + n))
              /\ Current'.cursor_pos = b.cursor_pos + n]_vars

\* the pair p is the two offsets a and c in ascending order
OrderedPairOf(p, a, c) ==
    /\ p[1] <= p[2]
    /\ \/ p = <<a, c>>
       \/ p = <<c, a>>

\* C14: whenever a selection anchor is present, get_selection() returns
\* (min(anchor, cursor_pos), max(anchor, cursor_pos)), whichever of the two
\* comes first.
C14_SelectionIsOrderedPair ==
    (HasCurrent /\ IsSome(Current.selection_start))
        => /\ IsSome(GetSelection)
           /\ OrderedPairOf(GetSelection.some, Current.selection_start.some,
                            Current.cursor_pos)

\* an anchor is present and the cursor has moved to the left of it
C14_Witness ==
    /\ HasCurrent /\ ~panicked
    /\ IsSome(Current.selection_start)
    /\ Current.cursor_pos < Current.selection_start.some
    /\ last.op = "move_cursor"

\* C15: delete_selection() with an anchor present removes exactly the
\* characters at offsets [min(anchor, cursor_pos), max(anchor, cursor_pos)),
\* puts the cursor at the start of the removed range, clears the anchor, sets
\* is_modified and leaves the mode Normal.
C15_DeleteSelectionResult ==
    [][(/\ last'.op = "delete_selection"
        /\ HasCurrent
        /\ IsSome(Current.selection_start))
       => LET b == Current
              a == b.selection_start.some
              lo == IF a < b.cursor_pos THEN a ELSE b.cursor_pos
              hi == IF a < b.cursor_pos THEN b.cursor_pos ELSE a
          IN  /\ ~panicked'
              /\ Current'.content = SubSeq(b.content, 1, lo)
                                         \o SubSeq(b.content, hi + 1, Len(b.content))
              /\ Len(Current'.content) = Len(b.content) - (hi - lo)
              /\ Current'.cursor_pos = lo
              /\ Current'.selection_start = None
              /\ Current'.is_modified
              /\ mode' = "Normal"]_vars

\* C17: in Visual mode a cursor movement leaves the anchor and the content
\* unchanged, and get_selection() has the anchor as one endpoint and the new
\* cursor_pos as the other.
C17_VisualMovementKeepsAnchor ==
    [][(/\ mode = "Visual"
        /\ last'.op = "move_cursor"
        /\ HasCurrent
        /\ IsSome(Current.selection_start))
       => /\ Current'.selection_start = Current.selection_start
          /\ Current'.content = Current.content
          /\ IsSome(GetSelection')
          /\ OrderedPairOf(GetSelection'.some, Current.selection_start.some,
                           Current'.cursor_pos)]_vars

\* a movement in Visual mode has taken the cursor away from the anchor
C17_Witness ==
    /\ mode = "Visual" /\ HasCurrent /\ ~panicked
    /\ last.op = "move_cursor"
    /\ last.from # Current.cursor_pos
    /\ IsSome(Current.selection_start)
    /\ Current.selection_start.some # Current.cursor_pos

\* everything the Editor holds except its mode, and the files, are unchanged
EditorUnchangedButMode ==
    UNCHANGED <<viewport, buffers, current_buffer, starting_directory, files,
                scratch_count, clipboard, panicked>>

\* the mode changes of the key handlers: <<mode, key, mode after>>
ModeTransitions ==
    {<<"Normal", "i", "Insert">>, <<"Insert", "Esc", "Normal">>,
     <<"Normal", "v", "Visual">>, <<"Visual", "Esc", "Normal">>,
     <<"Visual", "d", "Normal">>, <<"Visual", "y", "Normal">>}

C18_YankAlwaysLeavesVisual ==
    [][(/\ last'.op = "key" /\ last'.arg = "y"
        /\ mode = "Visual" /\ ~explorer_open
        /\ HasCurrent)
       => /\ mode' = "Normal"
          /\ Current'.selection_start = None
          /\ app' = "running"
          /\ ~panicked'
          /\ ~last'.ok => IsSome(message')]_vars

\* C19: y in Visual mode leaves the content unchanged and, when the clipboard
\* takes the text, the clipboard holds exactly the characters at offsets
\* [min(anchor, cursor_pos), max(anchor, cursor_pos)).
C19_YankCopiesSelection ==
    [][(/\ last'.op = "key" /\ last'.arg = "y"
        /\ mode = "Visual" /\ ~explorer_open
        /\ HasCurrent
        /\ IsSome(Current.selection_start))
       => LET b == Current
              a == b.selection_start.some
              lo == IF a < b.cursor_pos THEN a ELSE b.cursor_pos
              hi == IF a < b.cursor_pos THEN b.cursor_pos ELSE a
          IN  /\ Current'.content = b.content
              /\ ~panicked'
              /\ last'.ok => clipboard' =
                                 Some([i \in 1..(hi - lo) |-> b.content[lo + i]])]_vars

\* y has been pressed on abcdef with the cursor at 5 and the clipboard took
\* cde: the selection from anchor 2
C19_Witness ==
    /\ last.op = "key" /\ last.arg = "y" /\ last.ok
    /\ HasCurrent
    /\ Current.content = <<"a", "b", "c", "d", "e", "f">>
    /\ Current.cursor_pos = 5
    /\ clipboard = Some(<<"c", "d", "e">>)

\* C20: when a file read or write fails while a key of the command bar or of
\* the file explorer is handled, a message is left, run_app keeps running,
\* and the documents, the current key and every is_modified flag are as
\* before the key.
C20_IoFailureIsReported ==
    [][(/\ last'.op = "key"
        /\ ~last'.ok
        /\ explorer_open \/ command_bar.active)
       => /\ app' = "running"
          /\ IsSome(message')
          /\ buffers' = buffers
          /\ current_buffer' = current_buffer]_vars

\* a second directory, and the paths and starting directories of the
\* path resolution runs
OtherDir == "/d"
PathDirs == {Cwd, OtherDir}
PathPaths == {RelPath("f"), AbsPath(Cwd, "f"), AbsPath(OtherDir, "f")}

\* the file "/w/f" exists, and "/d/f" exists with a different text or is
\* missing
PathInit ==
    /\ EditorNew
    /\ AppNew(TRUE)
    /\ \E present \in {{AbsPath(Cwd, "f"), AbsPath(OtherDir, "f")},
                        {AbsPath(Cwd, "f")}} :
           files = [l \in present |-> IF l.dir = Cwd THEN <<>> ELSE <<"a">>]

PathNext ==
    \/ \E d \in PathDirs : SetStartingDirectory(d)
    \/ \E path \in PathPaths : OpenFile(path)
    \/ \E path \in PathPaths, write_ok \in BOOLEAN : SaveFile(path, write_ok)
    \/ Insert("a", MaxStoreLen)
    \/ Delete

PathSpec == PathInit /\ [][PathNext]_vars

\* C22: save_file(path) right after a successful open_file(path) with the same
\* path argument leaves every file as it was, and leaves a current document
\* whose is_modified is false.
C22_OpenThenSaveSamePath ==
    [][(/\ last.op = "open_file"
        /\ last.ok
        /\ last'.op = "save_file"
        /\ last'.ok
        /\ last'.arg = last.arg)
       => /\ files' = files
          /\ HasCurrent'
          /\ ~Current'.is_modified]_vars

\* C23: open_file, new_scratch_buffer and save_file keep the document that is
\* current when they are called in the store, with its content, and with its
\* is_modified flag unless the call is a save.
C23_CurrentDocumentSurvives ==
    [][(/\ HasCurrent
        /\ last'.op \in {"open_file", "new_scratch_buffer", "save_file"})
       => LET k == current_buffer.some
          IN  /\ k \in DOMAIN buffers'
              /\ buffers'[k].content = buffers[k].content
              /\ (buffers[k].is_modified /\ last'.op # "save_file")
                    => buffers'[k].is_modified]_vars

\* --- one opened file that is edited, moved in and saved -------------------

\* longest text of these runs
MaxModifiedLen == 2

ModifiedInit ==
    \E text \in FileTexts :
        /\ EditorOpened(AbsPath(Cwd, "f"), text)
        /\ AppNew(TRUE)
        /\ files = [l \in {AbsPath(Cwd, "f")} |-> text]

ModifiedNext ==
    \/ Insert("a", MaxModifiedLen)
    \/ InsertNewLine(MaxModifiedLen)
    \/ InsertStr(<<"a", "a">>, MaxModifiedLen)
    \/ Delete
    \/ \E d \in Directions : MoveCursor(d)
    \/ SetViewport(<<13, 13>>)
    \/ EnterVisualMode
    \/ ExitVisualMode
    \/ DeleteSelection
    \/ \E write_ok \in BOOLEAN : SaveCurrentFile(write_ok)

ModifiedSpec == ModifiedInit /\ [][ModifiedNext]_vars

\* the fields of the editor and of the file system, without the call history
EditorState ==
    <<mode, viewport, buffers, current_buffer, starting_directory, files,
      scratch_count, panicked, uivars, message>>

\* C24: on the current document, is_modified is true after insert,
\* insert_str, insert_new_line, a delete with cursor_pos > 0 and a
\* delete_selection with an anchor; it is false after a successful save_file;
\* move_cursor and set_viewport (with the scrolling they do) leave it as it
\* was; a delete at offset 0 changes no state at all.
C24_ModifiedFlag ==
    [][(HasCurrent /\ ~panicked')
       => LET b == Current
              after == buffers'[current_buffer.some]
              op == last'.op
          IN  /\ op \in {"insert", "insert_str", "insert_new_line"}
                    => after.is_modified
              /\ (op = "delete" /\ b.cursor_pos > 0) => after.is_modified
              /\ (op = "delete_selection" /\ IsSome(b.selection_start))
                    => after.is_modified
              /\ (op = "save_file" /\ last'.ok) => ~after.is_modified
              /\ op \in {"move_cursor", "set_viewport"}
                    => after.is_modified = b.is_modified
              /\ (op = "delete" /\ b.cursor_pos = 0)
                    => UNCHANGED EditorState]_vars

\* an edited document has been saved
C24_Witness ==
    /\ HasCurrent
    /\ last.op = "save_file"
    /\ last.ok
    /\ ~Current.is_modified
    /\ Current.content = <<"a", NL>>

\* C25: Enter on the command q quits exactly when no stored document has
\* is_modified true; otherwise it leaves the unsaved-changes message, does not
\* quit and changes no document. Enter on q! always quits.
C25_QuitOnlyWhenSaved ==
    [][(/\ Handling
        /\ InCommandBar
        /\ last'.op = "key"
        /\ last'.arg = "Enter")
       => LET input == Trim(command_bar.input)
              unsaved == \E k \in DOMAIN buffers : buffers[k].is_modified
          IN  /\ input = <<"q">>
                    => /\ (app' = "quit") <=> ~unsaved
                       /\ unsaved
                            => /\ app' = "running"
                               /\ message' =
                                    Some("Unsaved changes. Use :q! to force quit.")
                               /\ buffers' = buffers
                               /\ current_buffer' = current_buffer
                               /\ files' = files
              /\ input = <<"q", "!">> => app' = "quit"]_vars

\* q has been refused because of a modified document that is not the current one
C25_Witness ==
    /\ last.op = "key"
    /\ last.arg = "Enter"
    /\ app = "running"
    /\ message = Some("Unsaved changes. Use :q! to force quit.")
    /\ HasCurrent
    /\ ~Current.is_modified
    /\ \E k \in DOMAIN buffers : buffers[k].is_modified

\* C26: the vertical scroll offset of the current document never exceeds the
\* number of lines of the document.
C26_ScrollWithinDocument ==
    (HasCurrent /\ ~panicked)
        => Current.scroll_offset[2] <= LenLines(Current.content)

\* C21: with no current document (no key set, or a key the store does not
\* hold) a key event whose file operations all succeed does not end the event
\* loop with an error, does not panic, writes no file and changes no stored
\* document.
C21_NoCurrentDocumentIsHarmless ==
    [][(/\ last'.op = "key"
        /\ last'.ok
        /\ ~HasCurrent)
       => /\ app' # "failed"
          /\ ~panicked'
          /\ files' = files
          /\ \A k \in DOMAIN buffers :
                 k \in DOMAIN buffers' /\ buffers'[k] = buffers[k]]_vars

\* ------------------------------------------------------------------------
\* Rendering
\* ------------------------------------------------------------------------

\* Iterator::skip(n).take(k) over the characters cs
SkipTake(cs, n, k) == SubSeq(cs, n + 1, Min(Len(cs), n + k))

\* Rope::line(l): the characters of line l, terminator included
RopeLine(c, l) == RopeSlice(c, LineToChar(c, l), LineToChar(c, l + 1))

\* the text the closure of get_visible_content emits for line line_idx
VisibleLine(b, vp, line_idx) ==
    LET scroll_x == b.scroll_offset[1]
        viewport_width == vp[1]
        line == RopeLine(b.content, line_idx)
        line_length == Len(line)
        visible_start == Min(scroll_x, SaturatingSub(line_length, 1))
        visible_end == Min(scroll_x + viewport_width, line_length)
        visible_line == IF line_length > 0
                        THEN SkipTake(line, visible_start, viewport_width)
                        ELSE <<>>
        has_newline == \E i \in (visible_end + 1)..line_length : line[i] = NL
    IN  IF line_idx = CharToLine(b.content, b.cursor_pos)
        THEN IF has_newline THEN visible_line \o <<NL>> ELSE visible_line
        ELSE IF scroll_x >= SaturatingSub(line_length, 1)
        THEN <<NL>>
        ELSE IF has_newline
        THEN visible_line \o <<NL>>
        ELSE TrimEnd(visible_line) \o <<NL>>

\* one past the last line get_visible_content emits
MaxLineIdx(b, vp) == Min(LenLines(b.content), b.scroll_offset[2] + vp[2])

RECURSIVE VisibleFrom(_, _, _)
\* the emitted lines from line_idx on, collected into one string
VisibleFrom(b, vp, line_idx) ==
    IF line_idx >= MaxLineIdx(b, vp) THEN <<>>
    ELSE VisibleLine(b, vp, line_idx) \o VisibleFrom(b, vp, line_idx + 1)

\* the string get_visible_content builds for buffer b
VisibleContent(b, vp) == VisibleFrom(b, vp, b.scroll_offset[2])

\* char_to_line(cursor_pos) is evaluated for every emitted line and panics on
\* a cursor beyond the end of the text
VisibleContentPanics(b, vp) ==
    /\ b.scroll_offset[2] < MaxLineIdx(b, vp)
    /\ b.cursor_pos > LenChars(b.content)

\* get_visible_content that re-computes the scroll offset before it reads it
GetVisibleContentScrolling ==
    /\ ~panicked
    /\ UNCHANGED <<uivars, message>>
    /\ IF HasCurrent
       THEN \E checked \in BOOLEAN :
                StoreCurrent(Scroll([Current EXCEPT !.scroll_offset = <<0, 0>>],
                                    viewport, checked))
       ELSE UNCHANGED <<buffers, panicked>>
    /\ last' = [op |-> "get_visible_content", arg |-> "", ok |-> TRUE, from |-> 0,
                ret |-> IF HasCurrent /\ ~panicked'
                        THEN Some(VisibleContent(buffers'[current_buffer.some], viewport))
                        ELSE None]
    /\ UNCHANGED <<mode, viewport, current_buffer, starting_directory, files,
                   scratch_count>>

\* Editor::get_visible_content(): a query, its value is left in last.ret
GetVisibleContent ==
    /\ ~panicked
    /\ UNCHANGED <<uivars, message>>
    /\ panicked' = (HasCurrent /\ VisibleContentPanics(Current, viewport))
    /\ last' = [op |-> "get_visible_content", arg |-> "", ok |-> TRUE, from |-> 0,
                ret |-> IF HasCurrent /\ ~panicked'
                        THEN Some(VisibleContent(Current, viewport)) ELSE None]
    /\ UNCHANGED <<mode, viewport, buffers, current_buffer, starting_directory,
                   files, scratch_count>>

RECURSIVE StrLines(_)
\* str::lines(): the pieces between newlines, without a last empty piece
StrLines(cs) ==
    IF cs = <<>> THEN <<>>
    ELSE IF \E i \in 1..Len(cs) : cs[i] = NL
    THEN LET i == CHOOSE k \in 1..Len(cs) :
                      cs[k] = NL /\ \A m \in 1..(k - 1) : cs[m] # NL
         IN  <<SubSeq(cs, 1, i - 1)>> \o StrLines(SubSeq(cs, i + 1, Len(cs)))
    ELSE <<cs>>

\* is byte offset n of the string cs a character boundary
IsCharBoundary(cs, n) == \E k \in 0..Len(cs) : ByteLen(SubSeq(cs, 1, k)) = n

\* &line[a..b]: the characters between the byte offsets a and b
ByteSlice(cs, a, b) ==
    LET CharsUpTo(n) == CHOOSE k \in 0..Len(cs) : ByteLen(SubSeq(cs, 1, k)) = n
    IN  SubSeq(cs, CharsUpTo(a) + 1, CharsUpTo(b))

\* Span::raw / Span::styled
Span(text, styled) == [text |-> text, styled |-> styled]

\* the byte offsets at which the closure of render_content cuts displayed
\* line number line_idx for the selection (start, end)
SelectionCut(c, line_idx, line, start, end) ==
    LET line_start == LineToChar(c, line_idx)
        line_end == line_start + ByteLen(line)
    IN  [hit |-> line_start < end /\ line_end > start,
         sel_start |-> SaturatingSub(start, line_start),
         sel_end |-> Min(end - line_start, ByteLen(line))]

\* the spans the closure of render_content builds for displayed line number
\* line_idx, whose text is line
RenderLine(c, selection, line_idx, line) ==
    IF IsSome(selection)
    THEN LET cut == SelectionCut(c, line_idx, line, selection.some[1],
                                 selection.some[2])
         IN  IF cut.hit
             THEN (IF cut.sel_start > 0
                   THEN <<Span(ByteSlice(line, 0, cut.sel_start), FALSE)>>
                   ELSE <<>>)
                  \o <<Span(ByteSlice(line, cut.sel_start, cut.sel_end), TRUE)>>
                  \o (IF cut.sel_end < ByteLen(line)
                      THEN <<Span(ByteSlice(line, cut.sel_end, ByteLen(line)), FALSE)>>
                      ELSE <<>>)
             ELSE <<Span(line, FALSE)>>
    ELSE <<Span(line, FALSE)>>

\* the lines render_content hands to the paragraph
RenderedLines ==
    LET lines == StrLines(VisibleContent(Current, viewport))
    IN  [i \in 1..Len(lines) |->
            RenderLine(Current.content, GetSelection, i - 1, lines[i])]

\* a slice of render_content starts or ends inside a character, or
\* get_visible_content panics
RenderContentPanics ==
    \/ VisibleContentPanics(Current, viewport)
    \/ /\ IsSome(GetSelection)
       /\ LET lines == StrLines(VisibleContent(Current, viewport))
          IN  \E i \in 1..Len(lines) :
                  LET cut == SelectionCut(Current.content, i - 1, lines[i],
                                          GetSelection.some[1],
                                          GetSelection.some[2])
                  IN  /\ cut.hit
                      /\ \/ ~IsCharBoundary(lines[i], cut.sel_start)
                         \/ ~IsCharBoundary(lines[i], cut.sel_end)

\* render_content(): the lines it draws are left in last.ret
RenderContent ==
    /\ ~panicked
    /\ UNCHANGED <<uivars, message>>
    /\ panicked' = (HasCurrent /\ RenderContentPanics)
    /\ last' = [op |-> "render_content", arg |-> "", ok |-> TRUE, from |-> 0,
                ret |-> IF HasCurrent /\ ~panicked'
                        THEN Some(RenderedLines) ELSE None]
    /\ UNCHANGED <<mode, viewport, buffers, current_buffer, starting_directory,
                   files, scratch_count>>

\* --- one opened file that is looked at through small viewports ------------

\* the texts of the file: enough lines and columns to scroll on both axes,
\* lines of different lengths, with and without trailing blanks and a final
\* newline
ViewTexts ==
    {<<NL, NL, NL, NL, NL, NL>>
        \o <<"a", "b", "c", "d", "e", "f", "g", "h", NL, "a", "b", " ", NL, "c">>,
     <<NL, NL, NL, NL, NL, "a", "b", NL>>
        \o <<"a", "b", "c", "d", "e", "f", "g", "h", NL, "a", " ", "c", NL>>}

\* the viewports set while looking
ViewViewports == {<<13, 13>>, <<8, 8>>}

ViewInit ==
    \E text \in ViewTexts :
        /\ EditorOpened(AbsPath(Cwd, "f"), text)
        /\ AppNew(TRUE)
        /\ files = [l \in {AbsPath(Cwd, "f")} |-> text]

ViewNext ==
    \/ \E d \in Directions : MoveCursor(d)
    \/ \E vp \in ViewViewports : SetViewport(vp)
    \/ EnterVisualMode
    \/ ExitVisualMode
    \/ GetVisibleContent
    \/ RenderContent

ViewSpec == ViewInit /\ [][ViewNext]_vars

\* C27: get_visible_content changes no field of the editor, and two calls in
\* a row return the same text.
C27_VisibleContentIsAQuery ==
    [][(last'.op = "get_visible_content" /\ ~panicked')
       => /\ UNCHANGED EditorState
          /\ last.op = "get_visible_content" => last'.ret = last.ret]_vars

\* the text has been read while the document is scrolled on both axes
C27_Witness ==
    /\ last.op = "get_visible_content"
    /\ IsSome(last.ret)
    /\ Current.scroll_offset[1] > 0
    /\ Current.scroll_offset[2] > 0

\* the characters of line l without its terminator
LineBody(c, l) ==
    LET line == RopeLine(c, l)
    IN  IF line # <<>> /\ line[Len(line)] = NL
        THEN SubSeq(line, 1, Len(line) - 1) ELSE line

\* the characters of line l at the columns [scroll_x, scroll_x + width)
LineWindow(b, vp, l) ==
    SkipTake(LineBody(b.content, l), Min(b.scroll_offset[1], Len(LineBody(b.content, l))),
             vp[1])

RECURSIVE WindowedFrom(_, _, _)
\* the visible lines from l on: the emitted text for the cursor's line, the
\* trimmed window and one newline for every other line
WindowedFrom(b, vp, l) ==
    IF l >= MaxLineIdx(b, vp) THEN <<>>
    ELSE (IF l = CharToLine(b.content, b.cursor_pos)
          THEN VisibleLine(b, vp, l)
          ELSE TrimEnd(LineWindow(b, vp, l)) \o <<NL>>)
         \o WindowedFrom(b, vp, l + 1)

\* C30: for every visible line other than the cursor's line the text returned
\* by get_visible_content holds the line's characters, terminator excluded, at
\* the columns [scroll_x, scroll_x + viewport_width), trailing whitespace
\* removed, followed by one newline.
C30_OtherLinesAreWindowed ==
    (last.op = "get_visible_content" /\ IsSome(last.ret))
        => last.ret.some = WindowedFrom(Current, viewport, Current.scroll_offset[2])

\* the three-case rule for one axis, over the integers
ThreeCaseRule(cur, off, dim, pad) ==
    IF cur < off + pad
    THEN (IF cur - pad > 0 THEN cur - pad ELSE 0)
    ELSE IF cur >= off + dim - pad
    THEN (IF cur - (dim - pad - 1) > 0 THEN cur - (dim - pad - 1) ELSE 0)
    ELSE off

\* C29: the scroll recomputation at the end of an operation sets each axis of
\* scroll_offset by the three-case rule from the cursor's line and column, the
\* offset before and the viewport; set_viewport, which does nothing else to
\* the document, changes no other field of it.
C29_ScrollIsThreeCaseRule ==
    [][(/\ HasCurrent
        /\ last'.op \in ScrollingOps \cup {"delete"}
        /\ ~(last'.op = "delete" /\ Current.cursor_pos = 0))
       => LET b == Current
              after == buffers'[current_buffer.some]
          IN  /\ ~panicked'
              /\ after.scroll_offset =
                    <<ThreeCaseRule(ColumnOf(after), b.scroll_offset[1],
                                    viewport'[1], HORIZONTAL_PADDING),
                      ThreeCaseRule(LineOf(after), b.scroll_offset[2],
                                    viewport'[2], VERTICAL_PADDING)>>
              /\ last'.op = "set_viewport"
                    => after = [b EXCEPT !.scroll_offset = after.scroll_offset]]_vars

RECURSIVE StyledFrom(_, _)
\* the positions of a drawn line that lie in a styled span, the spans
\* starting at position off + 1
StyledFrom(spans, off) ==
    IF spans = <<>> THEN {}
    ELSE (IF Head(spans).styled
          THEN (off + 1)..(off + Len(Head(spans).text)) ELSE {})
         \cup StyledFrom(Tail(spans), off + Len(Head(spans).text))

RECURSIVE SpansText(_)
\* the text of a drawn line
SpansText(spans) ==
    IF spans = <<>> THEN <<>> ELSE Head(spans).text \o SpansText(Tail(spans))

\* the column of document line l at which its displayed characters start
DisplayedFrom(b, l) ==
    LET len == LineLenChars(b.content, l)
    IN  Min(b.scroll_offset[1], SaturatingSub(len, 1))

\* the positions of the i-th displayed line whose characters have document
\* offsets inside the selection (start, end)
SelectedPositions(b, i, n, start, end) ==
    LET l == b.scroll_offset[2] + i - 1
    IN  {j \in 1..n :
            LET offset == LineToChar(b.content, l) + DisplayedFrom(b, l) + j - 1
            IN  start <= offset /\ offset < end}

\* C28: with a non-empty selection in Visual mode, on every drawn line the styled
\* positions are exactly the displayed characters whose document offsets lie in
\* [selection_start, selection_end), and a line with no such character is a
\* single span that highlights nothing.
C28_HighlightIsSelection ==
    (/\ last.op = "render_content"
     /\ IsSome(last.ret)
     /\ mode = "Visual"
     /\ IsSome(GetSelection)
     /\ GetSelection.some[1] < GetSelection.some[2])
        => \A i \in DOMAIN last.ret.some :
               LET spans == last.ret.some[i]
                   selected == SelectedPositions(Current, i, Len(SpansText(spans)),
                                                 GetSelection.some[1],
                                                 GetSelection.some[2])
               IN  /\ StyledFrom(spans, 0) = selected
                   /\ selected = {} => Len(spans) = 1

\* C31: an open_file that returns an error leaves the buffers map, the current
\* key, the mode and every document as they were; a save_file that returns an
\* error leaves the current key and every is_modified flag as they were.
C31_FailedOperationKeepsStore ==
    [][/\ (last'.op = "open_file" /\ ~last'.ok)
            => /\ buffers' = buffers
               /\ current_buffer' = current_buffer
               /\ mode' = mode
       /\ (last'.op = "save_file" /\ ~last'.ok)
            => /\ current_buffer' = current_buffer
               /\ DOMAIN buffers' = DOMAIN buffers
               /\ \A k \in DOMAIN buffers :
                      buffers'[k].is_modified = buffers[k].is_modified]_vars

\* an open_file has failed while the current document has unsaved edits
C31_Witness ==
    /\ last.op = "open_file"
    /\ ~last.ok
    /\ HasCurrent
    /\ Current.is_modified

\* ------------------------------------------------------------------------
\* The command bar of the single-file editor (editor.rs)
\* ------------------------------------------------------------------------

\* what these methods leave alone
SingleFrame ==
    UNCHANGED <<mode, viewport, buffers, current_buffer, starting_directory,
                files, scratch_count, panicked, clipboard, command_bar,
                explorer_open, message, app>>

\* Editor::command_bar_input(c) of editor.rs
CommandBarInput(c, maxlen) ==
    /\ ~panicked
    /\ Len(single_editor.input) < maxlen
    /\ single_editor' =
           [input |-> Append(single_editor.input, c),
            original_command_input |-> Append(single_editor.input, c),
            suggestion_index |-> 0,
            typed |-> Append(single_editor.input, c)]
    /\ Done("command_bar_input", TRUE)
    /\ SingleFrame

\* String::pop
Pop(cs) == IF cs = <<>> THEN cs ELSE SubSeq(cs, 1, Len(cs) - 1)

\* Editor::command_bar_backspace() of editor.rs
CommandBarBackspace ==
    /\ ~panicked
    /\ single_editor' =
           [input |-> Pop(single_editor.input),
            original_command_input |-> Pop(single_editor.input),
            suggestion_index |-> 0,
            typed |-> Pop(single_editor.input)]
    /\ Done("command_bar_backspace", TRUE)
    /\ SingleFrame

\* Editor::cycle_suggestion(forward) of editor.rs; the list of suggestions is
\* never empty
CycleSuggestion(forward) ==
    LET len == Len(SingleSuggestions)
        index == IF forward
                 THEN (single_editor.suggestion_index + 1) % len
                 ELSE (single_editor.suggestion_index + len - 1) % len
    IN  /\ ~panicked
        /\ single_editor' =
               [single_editor EXCEPT
                    !.suggestion_index = index,
                    !.original_command_input = single_editor.input,
                    !.input = SingleSuggestions[index + 1]]
        /\ Done("cycle_suggestion", TRUE)
        /\ SingleFrame

\* Editor::reset_to_original_input() of editor.rs
ResetToOriginalInput ==
    /\ ~panicked
    /\ single_editor' =
           [single_editor EXCEPT
                !.input = single_editor.original_command_input,
                !.suggestion_index = 0]
    /\ Done("reset_to_original_input", TRUE)
    /\ SingleFrame

\* longest input typed in these runs
MaxInputLen == 2

SuggestInit ==
    /\ EditorStarted
    /\ AppNew(TRUE)
    /\ files = <<>>

SuggestNext ==
    \/ \E c \in {"a", "w"} : CommandBarInput(c, MaxInputLen)
    \/ CommandBarBackspace
    \/ \E forward \in BOOLEAN : CycleSuggestion(forward)
    \/ ResetToOriginalInput

SuggestSpec == SuggestInit /\ [][SuggestNext]_vars

\* C32: once the user has typed an input, reset_to_original_input right after
\* one or more cycle_suggestion calls restores the typed input and sets the
\* suggestion index to 0.
C32_ResetRestoresTypedInput ==
    [][(/\ single_editor.typed # <<>>
        /\ last.op = "cycle_suggestion"
        /\ last'.op = "reset_to_original_input")
       => /\ single_editor'.input = single_editor.typed
          /\ single_editor'.suggestion_index = 0]_vars

\* --- two opened files, edited and saved in turn ---------------------------

\* the keys of the two documents
FramePaths == {AbsPath(Cwd, "f"), AbsPath(OtherDir, "f")}

\* both files have been opened, "/d/f" last
FrameInit ==
    /\ mode = "Normal"
    /\ viewport = DefaultViewport
    /\ buffers = [k \in FramePaths |-> BufferOpened(<<>>)]
    /\ current_buffer = Some(AbsPath(OtherDir, "f"))
    /\ starting_directory = None
    /\ scratch_count = 0
    /\ panicked = FALSE
    /\ last = [op |-> "open_file", arg |-> PathText(AbsPath(OtherDir, "f")),
               ok |-> TRUE, from |-> 0, ret |-> None]
    /\ AppNew(TRUE)
    /\ files = [l \in FramePaths |-> <<>>]

FrameNext ==
    \/ \E path \in FramePaths : OpenFile(path)
    \/ \E path \in FramePaths, write_ok \in BOOLEAN : SaveFile(path, write_ok)
    \/ Insert("a", MaxStoreLen)
    \/ Delete
    \/ \E d \in {"Left", "Right"} : MoveCursor(d)
    \/ SetViewport(<<13, 13>>)
    \/ EnterVisualMode
    \/ ExitVisualMode
    \/ DeleteSelection

FrameSpec == FrameInit /\ [][FrameNext]_vars

\* the editing, movement, selection, scroll and save operations
CurrentDocumentOps ==
    {"insert", "insert_str", "insert_new_line", "delete", "move_cursor",
     "set_viewport", "enter_visual_mode", "exit_visual_mode",
     "delete_selection", "save_file"}

\* C33: an editing, movement, selection, scroll or save operation leaves every
\* stored document other than the current one exactly as it was.
C33_OnlyCurrentDocumentChanges ==
    [][last'.op \in CurrentDocumentOps
       => \A k \in DOMAIN buffers :
              (~IsSome(current_buffer) \/ k # current_buffer.some)
                  => k \in DOMAIN buffers' /\ buffers'[k] = buffers[k]]_vars

\* a save has succeeded while another stored document has unsaved edits and a
\* moved cursor
C33_Witness ==
    /\ last.op = "save_file"
    /\ last.ok
    /\ HasCurrent
    /\ \E k \in DOMAIN buffers :
           /\ k # current_buffer.some
           /\ buffers[k].is_modified
           /\ buffers[k].cursor_pos > 0

\* the text of the file at a document's key, empty when there is no such file
FileTextAt(k) == IF FsLoc(k) \in DOMAIN files THEN files[FsLoc(k)] ELSE <<>>

\* C34: every stored document whose is_modified is false has the content of
\* the file at its own key, which in these runs only the editor writes.
C34_UnmodifiedMatchesFile ==
    ~panicked
        => \A k \in DOMAIN buffers :
               ~buffers[k].is_modified => buffers[k].content = FileTextAt(k)


\* ------------------------------------------------------------------------
\* Every key of Normal, Insert and Visual mode
\* ------------------------------------------------------------------------

\* the longest document the keys of EditKeySpec type
MaxKeyLen == 5

\* main() started without a file argument, or with one that does not exist
\* and so with no document; no clipboard could be opened, so that y ends the
\* program after copy_selection and the copied text, which no key reads
\* back, stays out of the state
EditKeyInit ==
    /\ EditorStarted \/ EditorNew
    /\ AppNew(FALSE)
    /\ files = <<>>

EditKeyNext ==
    \/ RenderUi(DefaultViewport)
    \/ KeyOther
    \/ \E d \in Directions : KeyMove(d)
    \/ NormalKeyI
    \/ InsertKeyChar(" ", MaxKeyLen)
    \/ InsertKeyEnter(MaxKeyLen)
    \/ InsertKeyTab(MaxKeyLen)
    \/ InsertKeyBackspace
    \/ InsertKeyEsc
    \/ NormalKeyV
    \/ VisualKeyEsc
    \/ VisualKeyD
    \/ \E set_ok \in BOOLEAN : VisualKeyY(set_ok)

EditKeySpec == EditKeyInit /\ [][EditKeyNext]_vars

\* C35: in every state reached through key events in which the mode is
\* Visual, there is a current document, its selection anchor is present, and
\* the anchor and cursor_pos are both at most the document's length in
\* characters, so the range delete_selection and copy_selection address lies
\* inside the content
C35_VisualSelectionInRange ==
    (~panicked /\ mode = "Visual")
    => /\ HasCurrent
       /\ IsSome(Current.selection_start)
       /\ Current.selection_start.some <= LenChars(Current.content)
       /\ Current.cursor_pos <= LenChars(Current.content)

\* Visual mode over a document of two lines with the cursor moved off the
\* anchor
C35_Witness ==
    /\ ~panicked
    /\ mode = "Visual"
    /\ HasCurrent
    /\ IsSome(Current.selection_start)
    /\ Current.selection_start.some # Current.cursor_pos
    /\ \E i \in 1..Len(Current.content) : Current.content[i] = NL
    /\ last.op = "key"


\* C36: a key pressed while the editor is in Normal mode with the command
\* bar inactive, or any key but d pressed in Visual mode, leaves the content
\* and the is_modified flag of every stored document as they were
C36_OnlyEditingKeysChangeContent ==
    [][(/\ last'.op = "key"
        /\ ~panicked'
        /\ \/ mode = "Normal" /\ ~command_bar.active
           \/ mode = "Visual" /\ last'.arg # "d")
       => \A k \in DOMAIN buffers :
              /\ k \in DOMAIN buffers'
              /\ buffers'[k].content = buffers[k].content
              /\ buffers'[k].is_modified = buffers[k].is_modified]_vars


\* ------------------------------------------------------------------------
\* The keys of the command bar, its suggestions included
\* ------------------------------------------------------------------------

BarKeyInit ==
    /\ EditorStarted
    /\ AppNew(TRUE)
    /\ files = <<>>

BarKeyNext ==
    \/ RenderUi(DefaultViewport)
    \/ NormalKeyColon
    \/ \E c \in CommandChars : CommandKeyChar(c)
    \/ CommandKeyBackspace
    \/ \E forward \in BOOLEAN : CommandKeyTab(forward)
    \/ \E forward \in BOOLEAN : CommandKeyPage(forward)
    \/ \E write_ok \in BOOLEAN : CommandKeyEnter(write_ok)
    \/ CommandKeyEsc

BarKeySpec == BarKeyInit /\ [][BarKeyNext]_vars

\* C37: whenever the command bar is active, suggestion_index is below the
\* number of commands and suggestion_page is the page of that suggestion,
\* suggestion_index / SUGGESTIONS_PER_PAGE
C37_PageFollowsSuggestion ==
    command_bar.active
    => /\ command_bar.suggestion_index < Len(CommandNames)
       /\ command_bar.suggestion_page =
              command_bar.suggestion_index \div SUGGESTIONS_PER_PAGE


\* ------------------------------------------------------------------------
\* The keys that leave a message, and the frames drawn between them
\* ------------------------------------------------------------------------

MessageKeyInit ==
    /\ EditorStarted
    /\ AppNew(TRUE)
    /\ files = [l \in {AbsPath(Cwd, "f")} |-> <<"a">>]

MessageKeyNext ==
    \/ RenderUi(DefaultViewport)
    \/ KeyOther
    \/ \E d \in {"Left", "Right"} : KeyMove(d)
    \/ NormalKeyV
    \/ VisualKeyEsc
    \/ VisualKeyD
    \/ \E set_ok \in BOOLEAN : VisualKeyY(set_ok)
    \/ NormalKeyColon
    \/ \E c \in CommandChars : CommandKeyChar(c)
    \/ CommandKeyBackspace
    \/ \E forward \in BOOLEAN : CommandKeyTab(forward)
    \/ \E write_ok \in BOOLEAN : CommandKeyEnter(write_ok)
    \/ CommandKeyEsc

MessageKeySpec == MessageKeyInit /\ [][MessageKeyNext]_vars

\* the messages the handler of a key can set
KeyMessages(name) ==
    CASE name = "y" -> {"Copied to clipboard successfully."}
      [] name = "Enter" ->
             {"File saved successfully.", "No file path set.", "Opened file",
              "Failed to open file", "Unsaved changes. Use :q! to force quit.",
              "Use :e <filename> to open a file.",
              "Use :set <option> to set an editor option.",
              "Split view not implemented yet.",
              "Vertical split view not implemented yet.", "Unknown command"}
      [] OTHER -> {}

\* C38: a key event leaves either no message or one its own handler set, so
\* the message of an earlier key event is gone as soon as the next one is
\* handled; and drawing a frame leaves the message as it is, so the message
\* a key event set is there when the next frame is drawn
C38_MessageLastsOneKeyEvent ==
    [][/\ last'.op = "key"
          => \/ message' = None
             \/ /\ IsSome(message')
                /\ message'.some \in KeyMessages(last'.arg)
       /\ last'.op # "key" => message' = message]_vars

\* a frame drawn while the message of the last key event is set
C38_Witness ==
    /\ IsSome(message)
    /\ last.op = "set_viewport"
    /\ app = "running"


\* C39: get_visible_line_numbers returns exactly viewport_height entries: row
\* i of the viewport carries the right-aligned 1-based number of line
\* scroll_y + i - 1 when the document has that line, and a blank entry when
\* the row lies past the document's end
C39_GutterHasViewportHeightEntries ==
    (last.op = "get_visible_line_numbers" /\ ~panicked)
    => LET entries == last.ret.some
           scroll_y == IF HasCurrent THEN Current.scroll_offset[2] ELSE 0
           total_lines == IF HasCurrent THEN LenLines(Current.content) ELSE 1
       IN  /\ Len(entries) = viewport[2]
           /\ \A i \in 1..Len(entries) :
                  entries[i] = IF scroll_y + i <= total_lines
                               THEN PadLeft(Decimal(scroll_y + i), 4)
                               ELSE BlankEntry

====
